---- MODULE Spec2Model ----
(***************************************************************************)
(* CacheSystem: the eviction engines LruCache, LfuCache, LfuAgingCache,    *)
(* LruKCache and ARCCache as state machines.  One cache object is under    *)
(* observation in a behaviour: Init is the state right after its           *)
(* constructor ran, every action is one public operation of that object    *)
(* run to completion (the engines serialise operations behind one mutex).  *)
(***************************************************************************)
EXTENDS Integers, Sequences, FiniteSets, TLC

(* ------------------------------ bounds -------------------------------- *)
NumKeys == 3
MaxCap == 2

Keys == 1..NumKeys
\* Value{} of an int value type is 0; it is also a value a caller may store.
DefaultValue == 0
\* No engine inspects a value: the default and one other value stand for all.
Values == {DefaultValue, DefaultValue + 1}
\* Capacities handed to a constructor: a negative one, zero, and the legal ones.
Caps == (0 - 1)..MaxCap

(* ------------------------- LruCache (LruCache.hpp) --------------------- *)
\* Node identities: the two sentinels and one node per key (the map holds at
\* most one node for a key, and a node leaves the list when its key leaves
\* the map).  NULL is an empty shared_ptr / an expired weak_ptr.
HEAD == 0
TAIL == NumKeys + 1
NULL == 0 - 1
NodeIds == Keys \cup {HEAD, TAIL}

\* initializeList(): fresh sentinels, head->next = tail, tail->prev = head.
initializeList(c) ==
    [c EXCEPT !.nxt = [n \in NodeIds |-> IF n = HEAD THEN TAIL ELSE NULL],
              !.prv = [n \in NodeIds |-> IF n = TAIL THEN HEAD ELSE NULL],
              !.val = [k \in Keys |-> DefaultValue]]

\* LruCache(int capacity): m_capacity(capacity), empty map, initializeList().
LruCache(capacity) ==
    initializeList([cap |-> capacity, map |-> {},
                    nxt |-> [n \in NodeIds |-> NULL],
                    prv |-> [n \in NodeIds |-> NULL],
                    val |-> [k \in Keys |-> DefaultValue]])

\* removeNode(node): unlink when both neighbours exist, then reset both links.
removeNode(c, n) ==
    LET prevNode == c.prv[n]
        nextNode == c.nxt[n]
        linked == IF prevNode # NULL /\ nextNode # NULL
                  THEN [c EXCEPT !.nxt = [@ EXCEPT ![prevNode] = nextNode],
                                 !.prv = [@ EXCEPT ![nextNode] = prevNode]]
                  ELSE c
    IN  [linked EXCEPT !.nxt = [@ EXCEPT ![n] = NULL],
                       !.prv = [@ EXCEPT ![n] = NULL]]

\* An insertion that sets the forward links and the node's own back link,
\* and leaves tail->prev pointing at the old last node.
insertForwardOnly(c, n) ==
    LET prevReal == c.prv[TAIL]
    IN  IF prevReal = NULL THEN c
        ELSE [c EXCEPT !.nxt = [@ EXCEPT ![prevReal] = n, ![n] = TAIL],
                       !.prv = [@ EXCEPT ![n] = prevReal]]

\* insertNodeAtTail(node): link node between tail->prev and tail.
insertNodeAtTail(c, n) ==
    LET prevReal == c.prv[TAIL]
    IN  IF prevReal = NULL THEN c
        ELSE [c EXCEPT !.nxt = [@ EXCEPT ![prevReal] = n, ![n] = TAIL],
                       !.prv = [@ EXCEPT ![n] = prevReal, ![TAIL] = n]]

\* A variant that leaves an accessed node where it is; the round-trip bound
\* must tell it from moveToMostRecent.
leaveInPlace(c, n) == c

\* moveToMostRecent(node): removeNode, insertNodeAtTail (the access counter
\* it bumps is a diagnostic no operation reads; it is not part of the state).
moveToMostRecent(c, n) == insertNodeAtTail(removeNode(c, n), n)

\* A variant that overwrites the value and leaves the node where it is; the
\* overwrite property must tell it from updateExistingNode.
updateValueOnly(c, n, v) == [c EXCEPT !.val = [@ EXCEPT ![n] = v]]

\* updateExistingNode(node, value): setValue, moveToMostRecent.
updateExistingNode(c, n, v) ==
    moveToMostRecent([c EXCEPT !.val = [@ EXCEPT ![n] = v]], n)

\* addNewNode(key, value): new node at the tail, then map.emplace(key, node).
addNewNode(c, k, v) ==
    LET withNode == insertNodeAtTail([c EXCEPT !.val = [@ EXCEPT ![k] = v]], k)
    IN  [withNode EXCEPT !.map = @ \cup {k}]

\* A variant that evicts from the wrong end of the list (the node before
\* tail); the eviction-order property must tell it from evictLeastRecent.
evictMostRecent(c) ==
    LET newest == c.prv[TAIL]
    IN  IF newest = HEAD THEN c
        ELSE [removeNode(c, newest) EXCEPT !.map = @ \ {newest},
                                           !.val = [@ EXCEPT ![newest] = DefaultValue]]

\* evictLeastRecent(): the node after head leaves the list and the map; the
\* node is destroyed with its last reference.
evictLeastRecent(c) ==
    LET oldest == c.nxt[HEAD]
    IN  IF oldest = TAIL THEN c
        ELSE [removeNode(c, oldest) EXCEPT !.map = @ \ {oldest},
                                           !.val = [@ EXCEPT ![oldest] = DefaultValue]]

\* A variant of put that never evicts; the size bound must tell it from
\* LruPut.
LruPutNoEvict(c, k, v) ==
    IF c.cap <= 0 THEN c
    ELSE IF k \in c.map THEN updateExistingNode(c, k, v)
    ELSE addNewNode(c, k, v)

\* LruCache::put(key, value).
LruPut(c, k, v) ==
    IF c.cap <= 0 THEN c
    ELSE IF k \in c.map THEN updateExistingNode(c, k, v)
    ELSE addNewNode(IF Cardinality(c.map) >= c.cap THEN evictLeastRecent(c) ELSE c,
                    k, v)

\* LruCache::get(key, value&): the state after, whether it hit, and what it
\* wrote through the reference (written only on a hit).
LruGet(c, k) ==
    IF k \notin c.map THEN [c |-> c, hit |-> FALSE, value |-> DefaultValue]
    ELSE [c |-> moveToMostRecent(c, k), hit |-> TRUE, value |-> c.val[k]]

\* A variant of remove that unlinks the node and leaves the index entry; the
\* remove property must tell it from LruRemove.
LruRemoveUnlinkOnly(c, k) == IF k \notin c.map THEN c ELSE removeNode(c, k)

\* LruCache::remove(key).
LruRemove(c, k) ==
    IF k \notin c.map THEN c
    ELSE [removeNode(c, k) EXCEPT !.map = @ \ {k},
                                  !.val = [@ EXCEPT ![k] = DefaultValue]]

\* LruCache::removeAll(): map.clear(), initializeList().
LruRemoveAll(c) == initializeList([c EXCEPT !.map = {}])

\* The keys met walking next-pointers from head to tail (LRU end first).
RECURSIVE Walk(_, _, _)
Walk(c, n, fuel) ==
    IF n = TAIL \/ n = NULL \/ fuel = 0 THEN <<>>
    ELSE <<n>> \o Walk(c, c.nxt[n], fuel - 1)

LruList(c) == Walk(c, c.nxt[HEAD], NumKeys + 1)

(* ------------------- helpers on sequences of keys --------------------- *)
Without(seq, k) == SelectSeq(seq, LAMBDA x : x # k)
Elems(seq) == {seq[i] : i \in 1..Len(seq)}
Min2(a, b) == IF a < b THEN a ELSE b
Max2(a, b) == IF a > b THEN a ELSE b

(* -------------------- LfuCache (unnamed/part_003) ---------------------- *)
\* A node's frequency grows with every hit; MaxFreq bounds it in the actions'
\* guards.  freqList_ maps a frequency to its recency list, head (oldest)
\* first; a bucket that is absent and one that is present but empty behave
\* alike (every reader tests empty()), and both are the empty sequence here.
MaxFreq == 3
Freqs == 0..(MaxFreq + 1)

\* LfuCache(int capacity): capacity_(capacity), minFreq_(0).
LfuCache(capacity) ==
    [cap |-> capacity, minFreq |-> 0, nodes |-> {},
     val |-> [k \in Keys |-> DefaultValue],
     freq |-> [k \in Keys |-> 0],
     fl |-> [f \in Freqs |-> <<>>]]

\* DoubleList::removeNode(node): the node is unlinked through its own
\* prev/next pointers, from whichever list holds it.
Unlink(fl, k) == [f \in DOMAIN fl |-> Without(fl[f], k)]

\* findMinFreq(): the smallest frequency with a non-empty list, else 0.
LfuFindMinFreq(s) ==
    LET live == {f \in DOMAIN s.fl : s.fl[f] # <<>>}
    IN  [s EXCEPT !.minFreq = IF live = {} THEN 0
                              ELSE CHOOSE f \in live : \A g \in live : f <= g]

\* A touch that moves the node to the recent end of its own bucket and
\* leaves its frequency alone.
LfuTouchKeepFreq(s, k) ==
    [s EXCEPT !.fl = [Unlink(s.fl, k) EXCEPT ![s.freq[k]] = Append(@, k)]]

\* LfuCache::touch(node).
LfuTouch(s, k) ==
    LET f == s.freq[k]
        fl1 == Unlink(s.fl, k)
        mf == IF f = s.minFreq /\ fl1[f] = <<>> THEN s.minFreq + 1 ELSE s.minFreq
    IN  [s EXCEPT !.minFreq = mf,
                  !.freq = [@ EXCEPT ![k] = f + 1],
                  !.fl = [fl1 EXCEPT ![f + 1] = Append(@, k)]]

\* LfuCache::removeNode(node): unlink, and rescan when the minimum bucket
\* became empty.
LfuRemoveNode(s, k) ==
    LET f == s.freq[k]
        s1 == [s EXCEPT !.fl = Unlink(s.fl, k)]
    IN  IF f = s.minFreq /\ s1.fl[f] = <<>> THEN LfuFindMinFreq(s1) ELSE s1

\* nodes_.erase(key): the node object dies with its map entry.
LfuErase(s, k) ==
    [s EXCEPT !.nodes = @ \ {k},
              !.val = [@ EXCEPT ![k] = DefaultValue],
              !.freq = [@ EXCEPT ![k] = 0]]

\* LfuCache::put(key, value).  ok = FALSE: the victim taken from an empty
\* bucket is that list's tail sentinel, and unlinking it dereferences the
\* sentinel's null next pointer; the call never returns.
LfuPut(s, k, v) ==
    IF s.cap <= 0 THEN [s |-> s, ok |-> TRUE]
    ELSE IF k \in s.nodes
    THEN [s |-> LfuTouch([s EXCEPT !.val = [@ EXCEPT ![k] = v]], k), ok |-> TRUE]
    ELSE IF Cardinality(s.nodes) >= s.cap /\ s.fl[s.minFreq] = <<>>
    THEN [s |-> s, ok |-> FALSE]
    ELSE LET room == IF Cardinality(s.nodes) >= s.cap
                     THEN LET victim == Head(s.fl[s.minFreq])
                          IN  LfuErase(LfuRemoveNode(s, victim), victim)
                     ELSE s
         IN  [s |-> [room EXCEPT !.nodes = @ \cup {k},
                                 !.val = [@ EXCEPT ![k] = v],
                                 !.freq = [@ EXCEPT ![k] = 1],
                                 !.minFreq = 1,
                                 !.fl = [@ EXCEPT ![1] = Append(@, k)]],
              ok |-> TRUE]

\* LfuCache::get(key, value&).
LfuGet(s, k) ==
    IF k \notin s.nodes THEN [s |-> s, hit |-> FALSE, value |-> DefaultValue]
    ELSE [s |-> LfuTouch(s, k), hit |-> TRUE, value |-> s.val[k]]

\* LfuCache::remove(key): removeNode, nodes_.erase, findMinFreq.
LfuRemove(s, k) ==
    IF k \notin s.nodes THEN s
    ELSE LfuFindMinFreq(LfuErase(LfuRemoveNode(s, k), k))

\* LfuCache::removeAll().
LfuRemoveAll(s) ==
    [s EXCEPT !.nodes = {}, !.minFreq = 0,
              !.val = [k \in Keys |-> DefaultValue],
              !.freq = [k \in Keys |-> 0],
              !.fl = [f \in Freqs |-> <<>>]]

(* ------------ LfuCache, the header without a mutex (part_002) ---------- *)
\* The class has the same members, the same touch, get and removeAll, and
\* no check of the capacity in its constructor.

\* LfuCache::removeNode(node): unlink, and step minFreq_ up by one when the
\* minimum bucket became empty.
LfuPlainRemoveNode(s, k) ==
    LET f == s.freq[k]
        s1 == [s EXCEPT !.fl = Unlink(s.fl, k)]
    IN  IF f = s.minFreq /\ s1.fl[f] = <<>> THEN [s1 EXCEPT !.minFreq = @ + 1] ELSE s1

\* LfuCache::put(key, value).  ok = FALSE as in LfuPut.
LfuPlainPut(s, k, v) ==
    IF s.cap <= 0 THEN [s |-> s, ok |-> TRUE]
    ELSE IF k \in s.nodes
    THEN [s |-> LfuTouch([s EXCEPT !.val = [@ EXCEPT ![k] = v]], k), ok |-> TRUE]
    ELSE IF Cardinality(s.nodes) >= s.cap /\ s.fl[s.minFreq] = <<>>
    THEN [s |-> s, ok |-> FALSE]
    ELSE LET room == IF Cardinality(s.nodes) >= s.cap
                     THEN LET victim == Head(s.fl[s.minFreq])
                          IN  LfuErase(LfuPlainRemoveNode(s, victim), victim)
                     ELSE s
         IN  [s |-> [room EXCEPT !.nodes = @ \cup {k},
                                 !.val = [@ EXCEPT ![k] = v],
                                 !.freq = [@ EXCEPT ![k] = 1],
                                 !.minFreq = 1,
                                 !.fl = [@ EXCEPT ![1] = Append(@, k)]],
              ok |-> TRUE]

\* LfuCache::remove(key): removeNode, nodes_.erase.
LfuPlainRemove(s, k) ==
    IF k \notin s.nodes THEN s
    ELSE LfuErase(LfuPlainRemoveNode(s, k), k)

(* --------------- LfuAgingCache (include/LfuAgingCache.hpp) ------------- *)
\* size_t arithmetic wraps; the model keeps the wrap at 2^30, far above
\* every count it can reach.
SizeMod == 2^30

\* The aging thresholds (maxAvgFreqLimit) a cache is constructed with: whole
\* numbers, so that avg > limit is totalFreqSum > limit * size exactly.
Limits == {2}

\* The orders in which a range-for over the unordered_map nodes_ may visit
\* its keys: the standard leaves it unspecified.
Orders(S) ==
    {o \in [1..Cardinality(S) -> S] : \A i, j \in 1..Cardinality(S) : i # j => o[i] # o[j]}

\* LfuAgingCache(int capacity, double maxAvgFreqLimit): no check at all.
LfuAgingCache(capacity, maxAvgFreqLimit) ==
    [cap |-> capacity, minFreq |-> 0, limit |-> maxAvgFreqLimit,
     total |-> 0, nodes |-> {},
     val |-> [k \in Keys |-> DefaultValue],
     freq |-> [k \in Keys |-> 0],
     fl |-> [f \in Freqs |-> <<>>]]

\* ageAll(): every node loses floor(limit/2), floored at 1; the lists are
\* rebuilt in the map's iteration order; minFreq_ starts at 0 and takes
\* std::min(minFreq_, freq) per node.
RECURSIVE AgeLoop(_, _, _, _)
AgeLoop(s, order, i, delta) ==
    IF i > Len(order) THEN s
    ELSE LET k == order[i]
             nf == Max2(1, s.freq[k] - delta)
         IN  IF k \notin s.nodes THEN AgeLoop(s, order, i + 1, delta)
             ELSE AgeLoop([s EXCEPT !.freq = [@ EXCEPT ![k] = nf],
                                    !.total = (@ + nf) % SizeMod,
                                    !.fl = [@ EXCEPT ![nf] = Append(@, k)],
                                    !.minFreq = Min2(@, nf)],
                          order, i + 1, delta)

ageAll(s, order) ==
    AgeLoop([s EXCEPT !.total = 0, !.fl = [f \in Freqs |-> <<>>], !.minFreq = 0],
            order, 1, s.limit \div 2)

\* A tryAging() that never ages.
skipAging(s, order) == s

\* tryAging(): ageAll() when totalFreqSum_ / nodes_.size() > limit.
tryAging(s, order) ==
    IF s.nodes = {} THEN s
    ELSE IF s.total > s.limit * Cardinality(s.nodes) THEN ageAll(s, order)
    ELSE s

\* LfuAgingCache::touch(node).
AgTouch(s, k, order) ==
    LET f == s.freq[k]
        fl1 == Unlink(s.fl, k)
        mf == IF f = s.minFreq /\ fl1[f] = <<>> THEN s.minFreq + 1 ELSE s.minFreq
    IN  tryAging([s EXCEPT !.minFreq = mf,
                           !.freq = [@ EXCEPT ![k] = f + 1],
                           !.total = (@ + 1) % SizeMod,
                           !.fl = [fl1 EXCEPT ![f + 1] = Append(@, k)]],
                 order)

\* LfuAgingCache::removeNode(node): unlink; ++minFreq_ when the minimum
\* bucket became empty.
AgRemoveNode(s, k) ==
    LET f == s.freq[k]
        fl1 == Unlink(s.fl, k)
    IN  [s EXCEPT !.fl = fl1,
                  !.minFreq = IF f = s.minFreq /\ fl1[f] = <<>> THEN @ + 1 ELSE @]

\* LfuAgingCache::put(key, value).  ok = FALSE: freqList_[minFreq_] is empty,
\* the victim is its tail sentinel, and removeNode writes through that
\* sentinel's null next pointer; the call never returns.
AgPut(s, k, v, order) ==
    IF s.cap <= 0 THEN [s |-> s, ok |-> TRUE]
    ELSE IF k \in s.nodes
    THEN [s |-> AgTouch([s EXCEPT !.val = [@ EXCEPT ![k] = v]], k, order),
          ok |-> TRUE]
    ELSE IF Cardinality(s.nodes) >= s.cap /\ s.fl[s.minFreq] = <<>>
    THEN [s |-> s, ok |-> FALSE]
    ELSE LET room == IF Cardinality(s.nodes) >= s.cap
                     THEN LET toRemove == Head(s.fl[s.minFreq])
                          IN  LfuErase(AgRemoveNode(s, toRemove), toRemove)
                     ELSE s
         IN  [s |-> tryAging([room EXCEPT !.nodes = @ \cup {k},
                                          !.val = [@ EXCEPT ![k] = v],
                                          !.freq = [@ EXCEPT ![k] = 1],
                                          !.minFreq = 1,
                                          !.fl = [@ EXCEPT ![1] = Append(@, k)],
                                          !.total = (@ + 1) % SizeMod],
                             order),
              ok |-> TRUE]

\* LfuAgingCache::get(key, value&).
AgGet(s, k, order) ==
    IF k \notin s.nodes THEN [s |-> s, hit |-> FALSE, value |-> DefaultValue]
    ELSE [s |-> AgTouch(s, k, order), hit |-> TRUE, value |-> s.val[k]]

\* LfuAgingCache::remove(key).
AgRemove(s, k) ==
    IF k \notin s.nodes THEN s
    ELSE LfuErase(AgRemoveNode([s EXCEPT !.total = (@ - s.freq[k]) % SizeMod], k), k)

\* LfuAgingCache::removeAll().
AgRemoveAll(s) ==
    [s EXCEPT !.nodes = {}, !.minFreq = 0, !.total = 0,
              !.val = [k \in Keys |-> DefaultValue],
              !.freq = [k \in Keys |-> 0],
              !.fl = [f \in Freqs |-> <<>>]]

(* ---------------------- LruKCache (unnamed/part_001) ------------------- *)
\* historyStore_ is a map; NoValue marks a key it has no entry for.
NoValue == 0 - 1
\* The history count of a key grows with every get that finds no staged
\* value; MaxCount bounds it in the actions' guards.
MaxCount == 2

\* LruKCache(int k, int historyCapacity, int mainCapacity).
LruKCache(k, historyCapacity, mainCapacity) ==
    [k |-> k, main |-> LruCache(mainCapacity), history |-> LruCache(historyCapacity),
     store |-> [x \in Keys |-> NoValue]]

\* A touch that promotes one reference late: at a count above k.
touchAndPromoteLate(s, key, val) ==
    LET h == LruGet(s.history, key)
        cnt == (IF h.hit THEN h.value ELSE 0) + 1
    IN  IF cnt > s.k
        THEN [s EXCEPT !.main = LruPut(s.main, key, val),
                       !.history = LruRemove(h.c, key),
                       !.store = [@ EXCEPT ![key] = NoValue]]
        ELSE [s EXCEPT !.history = LruPut(h.c, key, cnt),
                       !.store = [@ EXCEPT ![key] = val]]

\* A touch that promotes at the first reference, whatever k is.
promoteAtOnce(s, key, val) ==
    [s EXCEPT !.main = LruPut(s.main, key, val),
              !.history = LruRemove(LruGet(s.history, key).c, key),
              !.store = [@ EXCEPT ![key] = NoValue]]

\* A touch that promotes and leaves the staged value behind.
touchAndPromoteKeepStaged(s, key, val) ==
    LET h == LruGet(s.history, key)
        cnt == (IF h.hit THEN h.value ELSE 0) + 1
    IN  IF cnt >= s.k
        THEN [s EXCEPT !.main = LruPut(s.main, key, val),
                       !.history = LruRemove(h.c, key)]
        ELSE [s EXCEPT !.history = LruPut(h.c, key, cnt),
                       !.store = [@ EXCEPT ![key] = val]]

\* touchAndMaybePromote(key, val).
touchAndMaybePromote(s, key, val) ==
    LET h == LruGet(s.history, key)
        cnt == (IF h.hit THEN h.value ELSE 0) + 1
    IN  IF cnt >= s.k
        THEN [s EXCEPT !.main = LruPut(s.main, key, val),
                       !.history = LruRemove(h.c, key),
                       !.store = [@ EXCEPT ![key] = NoValue]]
        ELSE [s EXCEPT !.history = LruPut(h.c, key, cnt),
                       !.store = [@ EXCEPT ![key] = val]]

\* A count-only touch that also stages Value{} for the key.
touchCountAndStage(s, key) ==
    LET h == LruGet(s.history, key)
        cnt == IF h.hit THEN h.value ELSE 0
    IN  [s EXCEPT !.history = LruPut(h.c, key, cnt + 1),
                  !.store = [@ EXCEPT ![key] = DefaultValue]]

\* touchCountOnly(key).
touchCountOnly(s, key) ==
    LET h == LruGet(s.history, key)
        cnt == IF h.hit THEN h.value ELSE 0
    IN  [s EXCEPT !.history = LruPut(h.c, key, cnt + 1)]

\* A put that refreshes a key of the main cache without storing the value.
LruKPutNoOverwrite(s, key, value) ==
    LET m == LruGet(s.main, key)
    IN  IF m.hit THEN [s EXCEPT !.main = m.c]
        ELSE touchAndMaybePromote(s, key, value)

\* LruKCache::put(key, value).
LruKPut(s, key, value) ==
    LET m == LruGet(s.main, key)
    IN  IF m.hit THEN [s EXCEPT !.main = LruPut(m.c, key, value)]
        ELSE touchAndMaybePromote(s, key, value)

\* A get that finds a key of the main cache without refreshing it.
LruKGetNoRefresh(s, key) ==
    IF key \in s.main.map
    THEN [s |-> s, hit |-> TRUE, value |-> s.main.val[key]]
    ELSE IF s.store[key] # NoValue
    THEN LET s1 == touchAndMaybePromote(s, key, s.store[key])
             m1 == LruGet(s1.main, key)
         IN  [s |-> [s1 EXCEPT !.main = m1.c], hit |-> m1.hit, value |-> m1.value]
    ELSE [s |-> touchCountOnly(s, key), hit |-> FALSE, value |-> DefaultValue]

\* LruKCache::get(key, value&).
LruKGet(s, key) ==
    LET m == LruGet(s.main, key)
    IN  IF m.hit THEN [s |-> [s EXCEPT !.main = m.c], hit |-> TRUE, value |-> m.value]
        ELSE IF s.store[key] # NoValue
        THEN LET s1 == touchAndMaybePromote(s, key, s.store[key])
                 m1 == LruGet(s1.main, key)
             IN  [s |-> [s1 EXCEPT !.main = m1.c], hit |-> m1.hit, value |-> m1.value]
        ELSE [s |-> touchCountOnly(s, key), hit |-> FALSE, value |-> DefaultValue]

\* A remove that leaves the key's history count in place.
LruKRemoveKeepHistory(s, key) ==
    [s EXCEPT !.main = LruRemove(s.main, key),
              !.store = [@ EXCEPT ![key] = NoValue]]

\* LruKCache::remove(key).
LruKRemove(s, key) ==
    [s EXCEPT !.main = LruRemove(s.main, key),
              !.history = LruRemove(s.history, key),
              !.store = [@ EXCEPT ![key] = NoValue]]

\* LruKCache::removeAll().
LruKRemoveAll(s) ==
    [s EXCEPT !.main = LruRemoveAll(s.main),
              !.history = LruRemoveAll(s.history),
              !.store = [x \in Keys |-> NoValue]]

(* ------------------------ ARCCache (ARCache.hpp) ----------------------- *)
\* The lists are std::list<Key> with a map of iterators beside each: a
\* sequence here, front (oldest) first, the map's key set being its elements.
\* store_map_ maps a key to its value, NoValue where it has no entry.

\* The keys of the larger ARCCache instance (SpecArcWide), and its capacity:
\* the ghost lists of a cache of capacity 3 can hold two keys of B1 beside
\* one of B2 while three more keys are resident.
NumWideKeys == 6
WideCap == 3
WideKeys == 1..NumWideKeys
ArcKeys == Keys \cup WideKeys

\* ARCCache(size_t capacity): an int argument converts to size_t.
ARCCache(capacity) ==
    [capacity |-> capacity % SizeMod, p |-> 0,
     t1 |-> <<>>, t2 |-> <<>>, b1 |-> <<>>, b2 |-> <<>>,
     store |-> [k \in ArcKeys |-> NoValue]]

InSeq(seq, k) == \E i \in 1..Len(seq) : seq[i] = k

\* moveKey(T1 -> T2) as promoteIfExists and accessT1 call it.
moveKey(s, key) ==
    [s EXCEPT !.t1 = Without(@, key), !.t2 = Append(@, key)]

\* The "refresh MRU" lines of promoteIfExists and accessT2.
refreshT2(s, key) == [s EXCEPT !.t2 = Append(Without(@, key), key)]

\* adjustP(hitB1), in size_t arithmetic.
adjustP(s, hitB1) ==
    IF hitB1
    THEN [s EXCEPT !.p = Min2(s.capacity,
                              (s.p + Max2(Len(s.b2) \div Len(s.b1), 1)) % SizeMod)]
    ELSE [s EXCEPT !.p = IF s.p > 0
                         THEN (s.p - Max2(Len(s.b1) \div Len(s.b2), 1)) % SizeMod
                         ELSE 0]

\* evictFromT1() / evictFromT2(): front of the list to the back of its ghost.
evictFromT1(s) == [s EXCEPT !.t1 = Tail(@), !.b1 = Append(@, Head(s.t1))]
evictFromT2(s) == [s EXCEPT !.t2 = Tail(@), !.b2 = Append(@, Head(s.t2))]

\* evictSlot(incoming): which list the replace step takes its victim from.
EvictsFromT1(s, incoming) ==
    s.t1 # <<>> /\ (Len(s.t1) > s.p \/ (InSeq(s.b2, incoming) /\ Len(s.t1) = s.p))

\* evictSlot(incoming).  ok = FALSE: front() and pop_front() on an empty
\* std::list; the behaviour is undefined and the call does not return
\* normally.
evictSlot(s, incoming) ==
    IF EvictsFromT1(s, incoming) THEN [s |-> evictFromT1(s), ok |-> TRUE]
    ELSE IF s.t2 = <<>> THEN [s |-> s, ok |-> FALSE]
    ELSE [s |-> evictFromT2(s), ok |-> TRUE]

\* A trim that leaves the ghost lists as they are.
keepGhosts(s) == [s |-> s, ok |-> TRUE]

\* trimGhostLists(): while |B1| + |B2| > capacity drop a ghost's front.
\* ok = FALSE: removeGhost on an empty list.
RECURSIVE trimGhostLists(_)
trimGhostLists(s) ==
    IF Len(s.b1) + Len(s.b2) > s.capacity
    THEN IF Len(s.b1) > (s.capacity - s.p) % SizeMod
         THEN trimGhostLists([s EXCEPT !.b1 = Tail(@)])
         ELSE IF s.b2 = <<>> THEN [s |-> s, ok |-> FALSE]
         ELSE trimGhostLists([s EXCEPT !.b2 = Tail(@)])
    ELSE [s |-> s, ok |-> TRUE]

\* insertToT1 / insertToT2.
insertToT1(s, key, value) ==
    [s EXCEPT !.store = [@ EXCEPT ![key] = value], !.t1 = Append(@, key)]
insertToT2(s, key, value) ==
    [s EXCEPT !.store = [@ EXCEPT ![key] = value], !.t2 = Append(@, key)]

\* A ghost hit that leaves the key in its ghost list.
handleGhostHitKeepGhost(s, key, value, isB1) ==
    LET e == evictSlot(adjustP(s, isB1), key)
    IN  IF e.ok THEN [s |-> insertToT2(e.s, key, value), ok |-> TRUE]
        ELSE [s |-> s, ok |-> FALSE]

\* handleGhostHit(key, value, ghost, isB1), called with key in that ghost.
handleGhostHit(s, key, value, isB1) ==
    LET e == evictSlot(adjustP(s, isB1), key)
        cleared == IF isB1 THEN [e.s EXCEPT !.b1 = Without(@, key)]
                   ELSE [e.s EXCEPT !.b2 = Without(@, key)]
    IN  IF e.ok THEN [s |-> insertToT2(cleared, key, value), ok |-> TRUE]
        ELSE [s |-> s, ok |-> FALSE]

\* A full miss that leaves the ghost lists untrimmed.
handleCacheMissNoTrim(s, key, value) ==
    LET e == IF Len(s.t1) + Len(s.t2) >= s.capacity THEN evictSlot(s, key)
             ELSE [s |-> s, ok |-> TRUE]
    IN  IF e.ok THEN [s |-> insertToT1(e.s, key, value), ok |-> TRUE]
        ELSE [s |-> s, ok |-> FALSE]

\* handleCacheMiss(key, value).
handleCacheMiss(s, key, value) ==
    LET e == IF Len(s.t1) + Len(s.t2) >= s.capacity THEN evictSlot(s, key)
             ELSE [s |-> s, ok |-> TRUE]
        t == IF e.ok THEN trimGhostLists(e.s) ELSE e
    IN  IF t.ok THEN [s |-> insertToT1(t.s, key, value), ok |-> TRUE]
        ELSE [s |-> s, ok |-> FALSE]

\* ARCCache::put(key, value).
ArcPut(s, key, value) ==
    IF InSeq(s.t1, key)
    THEN [s |-> [moveKey(s, key) EXCEPT !.store = [@ EXCEPT ![key] = value]],
          ok |-> TRUE]
    ELSE IF InSeq(s.t2, key)
    THEN [s |-> [refreshT2(s, key) EXCEPT !.store = [@ EXCEPT ![key] = value]],
          ok |-> TRUE]
    ELSE IF InSeq(s.b1, key) THEN handleGhostHit(s, key, value, TRUE)
    ELSE IF InSeq(s.b2, key) THEN handleGhostHit(s, key, value, FALSE)
    ELSE handleCacheMiss(s, key, value)

\* A variant of get that drops a ghost entry it was asked for; the miss
\* property must tell it from ArcGet.
ArcGetDroppingGhost(s, key) ==
    IF InSeq(s.t1, key)
    THEN [s |-> moveKey(s, key), hit |-> TRUE, value |-> s.store[key]]
    ELSE IF InSeq(s.t2, key)
    THEN [s |-> refreshT2(s, key), hit |-> TRUE, value |-> s.store[key]]
    ELSE [s |-> [s EXCEPT !.b1 = Without(@, key), !.b2 = Without(@, key)],
          hit |-> FALSE, value |-> DefaultValue]

\* A variant of get that finds a key of T1 and leaves it in T1; the hit
\* property must tell it from ArcGet.
ArcGetNoPromote(s, key) ==
    IF InSeq(s.t1, key)
    THEN [s |-> s, hit |-> TRUE, value |-> s.store[key]]
    ELSE IF InSeq(s.t2, key)
    THEN [s |-> refreshT2(s, key), hit |-> TRUE, value |-> s.store[key]]
    ELSE [s |-> s, hit |-> FALSE, value |-> DefaultValue]

\* ARCCache::get(key, value&): accessT1(key) || accessT2(key).
ArcGet(s, key) ==
    IF InSeq(s.t1, key)
    THEN [s |-> moveKey(s, key), hit |-> TRUE, value |-> s.store[key]]
    ELSE IF InSeq(s.t2, key)
    THEN [s |-> refreshT2(s, key), hit |-> TRUE, value |-> s.store[key]]
    ELSE [s |-> s, hit |-> FALSE, value |-> DefaultValue]

\* eraseKey(key, list, map): only a key the list holds loses its value.
ArcRemove(s, key) ==
    IF InSeq(s.t1, key) \/ InSeq(s.t2, key) \/ InSeq(s.b1, key) \/ InSeq(s.b2, key)
    THEN [s EXCEPT !.t1 = Without(@, key), !.t2 = Without(@, key),
                   !.b1 = Without(@, key), !.b2 = Without(@, key),
                   !.store = [@ EXCEPT ![key] = NoValue]]
    ELSE s

\* A variant of removeAll that keeps the adaptation target p; the reset
\* property must tell it from ArcRemoveAll.
ArcRemoveAllKeepP(s) ==
    [s EXCEPT !.t1 = <<>>, !.t2 = <<>>, !.b1 = <<>>, !.b2 = <<>>,
              !.store = [k \in ArcKeys |-> NoValue]]

\* ARCCache::removeAll().
ArcRemoveAll(s) ==
    [s EXCEPT !.t1 = <<>>, !.t2 = <<>>, !.b1 = <<>>, !.b2 = <<>>,
              !.store = [k \in ArcKeys |-> NoValue], !.p = 0]

(* ---- HashLfuAgingCache (include/HashLfuAgingCache.hpp) and --------- *)
(* ---- HashLruKCache (include/LfuAgingCache.hpp, from line 694) --------- *)
\* A wrapper is its vector of shards; shard i of the code (counted from 0)
\* is shards[i + 1] here.  Each shard's mutex is part of the concurrent
\* callers' state, further down.
IntMax == 2147483647

\* std::hash<int> of libstdc++: the value itself.
hasher(k) == k

\* getShard(key) / getShardPtr(key): hasher_(key) % shardCount_.
getShard(w, k) == (hasher(k) % Len(w.shards)) + 1

\* int(capacity) of a size_t.
ToInt(n) == IF n <= IntMax THEN n ELSE n - IntMax - IntMax - 2

\* Every shard gets the same capacity.
evenShare(T, N, i) == T \div N

\* The constructor's loop body: cap = base + (i + 1 == shardCount_ ? rem : 0).
shardCap(T, N, i) ==
    LET base == T \div N
        rem == T % N
    IN  base + (IF i + 1 = N THEN rem ELSE 0)

\* HashLfuAgingCache(totalCapacity, shardCount, maxAvgFreqLimit); Shard's
\* constructor builds cache(int(capacity), avgLimit).
HashLfuAgingCache(T, N, limit) ==
    [shards |-> [i \in 1..N |-> LfuAgingCache(ToInt(shardCap(T, N, i - 1)), limit)]]

\* A put that goes to the shard after the key's own.
HashAgPutNextShard(w, k, v, order) ==
    LET i == (getShard(w, k) % Len(w.shards)) + 1
        r == AgPut(w.shards[i], k, v, order)
    IN  [s |-> [w EXCEPT !.shards[i] = r.s], ok |-> r.ok]

\* HashLfuAgingCache::put / get / remove / removeAll.
HashAgPut(w, k, v, order) ==
    LET i == getShard(w, k)
        r == AgPut(w.shards[i], k, v, order)
    IN  [s |-> [w EXCEPT !.shards[i] = r.s], ok |-> r.ok]

HashAgGet(w, k, order) ==
    LET i == getShard(w, k)
        r == AgGet(w.shards[i], k, order)
    IN  [s |-> [w EXCEPT !.shards[i] = r.s], hit |-> r.hit, value |-> r.value]

HashAgRemove(w, k) ==
    LET i == getShard(w, k)
    IN  [w EXCEPT !.shards[i] = AgRemove(w.shards[i], k)]

HashAgRemoveAll(w) ==
    [w EXCEPT !.shards = [i \in 1..Len(w.shards) |-> AgRemoveAll(w.shards[i])]]

\* HashLruKCache<Key, Value, NumShards>(k, historyCapacity, mainCacheCapacity):
\* every shard is an LruKCache(k, historyCapacity, mainCacheCapacity).
HashLruKCache(N, k, historyCapacity, mainCacheCapacity) ==
    [shards |-> [i \in 1..N |-> LruKCache(k, historyCapacity, mainCacheCapacity)]]

\* HashLruKCache::put / get / remove / removeAll.
HashLruKPut(w, k, v) ==
    LET i == getShard(w, k)
    IN  [w EXCEPT !.shards[i] = LruKPut(w.shards[i], k, v)]

HashLruKGet(w, k) ==
    LET i == getShard(w, k)
        r == LruKGet(w.shards[i], k)
    IN  [s |-> [w EXCEPT !.shards[i] = r.s], hit |-> r.hit, value |-> r.value]

HashLruKRemove(w, k) ==
    LET i == getShard(w, k)
    IN  [w EXCEPT !.shards[i] = LruKRemove(w.shards[i], k)]

HashLruKRemoveAll(w) ==
    [w EXCEPT !.shards = [i \in 1..Len(w.shards) |-> LruKRemoveAll(w.shards[i])]]

(* ------------------------- the cache under test ------------------------ *)
\* LruKCache's k and historyCapacity arguments.
Ks == {1, 2}
HistCaps == {1, 2}
Engines == {"LRU", "LFU", "AGING", "LRUK", "ARC"}

\* The wrappers' arguments: the shard count (HashLruKCache's static_assert
\* admits the powers of two) and HashLfuAgingCache's total capacity.
MaxShards == 2
MaxTotal == 3
ShardCounts == 1..MaxShards
Totals == 0..MaxTotal
IsPowerOfTwo(m) == \E x \in 0..m : 2^x = m
Wrappers == {"HASHAGING", "HASHLRUK"}

VARIABLES
    engine,   \* which engine class the object is
    arg,      \* the constructor's arguments
    status,   \* "ok", "rejected" (the constructor failed), "fault" (a call never returned)
    cache,    \* the object's members
    out,      \* the variable the last get(key, value&) was handed, after the call
    last,     \* the last call: operation, key, what went in and what came back
    rec,      \* LRU and LFU: the resident keys, least recently accessed first
    trk,      \* round-trip observer: the last put of TrackedKey and what followed
    thr,      \* per thread: the call whose body it is executing, or none; for a
              \* wrapper, the call it is in and how far it has come
    mu,       \* the thread holding the object's mutex, or NoThread; for a
              \* wrapper, the holder of each mutex of each shard
    ref       \* reference observer: the references to TrackedKey and its last put

vars == <<engine, arg, status, cache, out, last, rec, trk, thr, mu, ref>>

\* The constructor of each engine.
Construct(e, a) ==
    CASE e = "LRU" -> LruCache(a.cap)
      [] e = "LFU" -> LfuCache(a.cap)
      [] e = "LFUPLAIN" -> LfuCache(a.cap)
      [] e = "AGING" -> LfuAgingCache(a.cap, a.limit)
      [] e = "LRUK" -> LruKCache(a.k, a.hist, a.cap)
      [] e = "ARC" -> ARCCache(a.cap)
      [] e = "HASHAGING" -> HashLfuAgingCache(a.total, a.n, a.limit)
      [] e = "HASHLRUK" -> HashLruKCache(a.n, a.k, a.hist, a.cap)

\* How construction can end.  assert() aborts a debug build and is compiled
\* out under NDEBUG; ARCCache throws std::invalid_argument.
\*   LruCache:  assert(capacity >= 0)      LfuCache: assert(capacity_ > 0)
\*   LfuAgingCache: no check               LruKCache: the LruCache base's assert
\*   LfuCache without a mutex: no check
\*   HashLfuAgingCache: no check           HashLruKCache: assert(k > 0) and
\*                                         its shards' asserts
\*   ARCCache:  if (capacity_ == 0) throw
CtorOutcomes(e, a) ==
    CASE e = "LRU" -> IF a.cap >= 0 THEN {"ok"} ELSE {"ok", "rejected"}
      [] e = "LFU" -> IF a.cap > 0 THEN {"ok"} ELSE {"ok", "rejected"}
      [] e = "LFUPLAIN" -> {"ok"}
      [] e = "AGING" -> {"ok"}
      [] e = "LRUK" -> IF a.cap >= 0 THEN {"ok"} ELSE {"ok", "rejected"}
      [] e = "ARC" -> IF a.cap % SizeMod = 0 THEN {"rejected"} ELSE {"ok"}
      [] e = "HASHAGING" -> {"ok"}
      [] e = "HASHLRUK" -> IF a.cap >= 0 THEN {"ok"} ELSE {"ok", "rejected"}

Args(e) ==
    CASE e = "AGING" -> [cap : Caps, limit : Limits]
      [] e = "LRUK" -> [cap : Caps, k : Ks, hist : HistCaps]
      [] e = "HASHAGING" -> [total : Totals, n : ShardCounts, limit : Limits]
      [] e = "HASHLRUK" -> [n : {m \in ShardCounts : IsPowerOfTwo(m)},
                            cap : Caps, k : Ks, hist : HistCaps]
      [] OTHER -> [cap : Caps]

\* The keys get(key, value&) finds, and the capacity the object holds.
Resident(e, s) ==
    CASE e = "LRU" -> s.map
      [] e = "LFU" -> s.nodes
      [] e = "LFUPLAIN" -> s.nodes
      [] e = "AGING" -> s.nodes
      [] e = "LRUK" -> s.main.map
      [] e = "ARC" -> Elems(s.t1) \cup Elems(s.t2)
      [] e = "HASHAGING" -> UNION {s.shards[i].nodes : i \in 1..Len(s.shards)}
      [] e = "HASHLRUK" -> UNION {s.shards[i].main.map : i \in 1..Len(s.shards)}

StoredValue(e, s, k) ==
    CASE e = "LRU" -> s.val[k]
      [] e = "LFU" -> s.val[k]
      [] e = "LFUPLAIN" -> s.val[k]
      [] e = "AGING" -> s.val[k]
      [] e = "LRUK" -> s.main.val[k]
      [] e = "ARC" -> s.store[k]
      [] e = "HASHAGING" -> s.shards[getShard(s, k)].val[k]
      [] e = "HASHLRUK" -> s.shards[getShard(s, k)].main.val[k]

Capacity(e, s) ==
    CASE e = "LRU" -> s.cap
      [] e = "LFU" -> s.cap
      [] e = "LFUPLAIN" -> s.cap
      [] e = "AGING" -> s.cap
      [] e = "LRUK" -> s.main.cap
      [] e = "ARC" -> s.capacity

\* put / get / remove / removeAll of the engine at hand.
EnginePut(e, s, k, v, order) ==
    CASE e = "LRU" -> [s |-> LruPut(s, k, v), ok |-> TRUE]
      [] e = "LFU" -> LfuPut(s, k, v)
      [] e = "LFUPLAIN" -> LfuPlainPut(s, k, v)
      [] e = "AGING" -> AgPut(s, k, v, order)
      [] e = "LRUK" -> [s |-> LruKPut(s, k, v), ok |-> TRUE]
      [] e = "ARC" -> ArcPut(s, k, v)
      [] e = "HASHAGING" -> HashAgPut(s, k, v, order)
      [] e = "HASHLRUK" -> [s |-> HashLruKPut(s, k, v), ok |-> TRUE]

EngineGet(e, s, k, order) ==
    CASE e = "LRU" -> LET r == LruGet(s, k) IN [s |-> r.c, hit |-> r.hit, value |-> r.value]
      [] e = "LFU" -> LfuGet(s, k)
      [] e = "LFUPLAIN" -> LfuGet(s, k)
      [] e = "AGING" -> AgGet(s, k, order)
      [] e = "LRUK" -> LruKGet(s, k)
      [] e = "ARC" -> ArcGet(s, k)
      [] e = "HASHAGING" -> HashAgGet(s, k, order)
      [] e = "HASHLRUK" -> HashLruKGet(s, k)

EngineRemove(e, s, k) ==
    CASE e = "LRU" -> LruRemove(s, k)
      [] e = "LFU" -> LfuRemove(s, k)
      [] e = "LFUPLAIN" -> LfuPlainRemove(s, k)
      [] e = "AGING" -> AgRemove(s, k)
      [] e = "LRUK" -> LruKRemove(s, k)
      [] e = "ARC" -> ArcRemove(s, k)
      [] e = "HASHAGING" -> HashAgRemove(s, k)
      [] e = "HASHLRUK" -> HashLruKRemove(s, k)

EngineRemoveAll(e, s) ==
    CASE e = "LRU" -> LruRemoveAll(s)
      [] e = "LFU" -> LfuRemoveAll(s)
      [] e = "LFUPLAIN" -> LfuRemoveAll(s)
      [] e = "AGING" -> AgRemoveAll(s)
      [] e = "LRUK" -> LruKRemoveAll(s)
      [] e = "ARC" -> ArcRemoveAll(s)
      [] e = "HASHAGING" -> HashAgRemoveAll(s)
      [] e = "HASHLRUK" -> HashLruKRemoveAll(s)

\* Value get(const Key&): LruCache (and LruKCache through it), LfuCache and
\* LfuAgingCache return the value or Value{}; ARCCache throws
\* std::out_of_range on a miss.
GetDefaultThrows(e, hit) == e = "ARC" /\ ~hit

\* The counters the guards bound: a hit raises a frequency, a get of a key
\* that is only in LRU-K's history raises its count.
WithinBounds(e, s, k) ==
    CASE e = "LFU" -> s.freq[k] < MaxFreq
      [] e = "LFUPLAIN" -> s.freq[k] < MaxFreq
      [] e = "AGING" -> s.freq[k] < MaxFreq
      [] e = "LRUK" -> s.history.val[k] < MaxCount
      [] e = "HASHAGING" -> s.shards[getShard(s, k)].freq[k] < MaxFreq
      [] e = "HASHLRUK" -> s.shards[getShard(s, k)].history.val[k] < MaxCount
      [] OTHER -> TRUE

\* Iteration orders that matter to the engine: only LfuAgingCache iterates
\* its map, over the nodes it holds when the call's aging check runs (which
\* nodes those are does not depend on the order).  A shard of
\* HashLfuAgingCache iterates its own map; AgeLoop passes over the keys of
\* the other shards.
OrdersOf(e, nodesThen) ==
    IF e \in {"AGING", "HASHAGING"} THEN Orders(nodesThen) ELSE {<<>>}

(* ------------------------------ observers ------------------------------ *)
\* last.  op and key name the call; hit: the key was resident (put, remove)
\* or found (get); ret: the value put, or the value a get produced; given:
\* what the caller's variable held when get(key, value&) was called; threw:
\* the call ended in an exception; gone: the keys that were resident before
\* the call and are not after it.
NoCall ==
    [op |-> "none", key |-> 0, hit |-> FALSE, ret |-> DefaultValue,
     given |-> DefaultValue, threw |-> FALSE, gone |-> {}]
Call(op, k, hit, ret, given, threw, after) ==
    [op |-> op, key |-> k, hit |-> hit, ret |-> ret, given |-> given,
     threw |-> threw, gone |-> Resident(engine, cache) \ Resident(engine, after)]

\* rec: the order of last access (insertion, overwriting put, successful
\* get) of the keys an LruCache or LfuCache holds, kept beside the cache, not
\* read by it.
Accessed(r, k, residentAfter) ==
    SelectSeq(Append(Without(r, k), k), LAMBDA x : x \in residentAfter)

\* a was last accessed before b.
Before(r, a, b) == \E i, j \in 1..Len(r) : i < j /\ r[i] = a /\ r[j] = b

RecAfter(touched, k, residentAfter) ==
    IF engine \notin {"LRU", "LFU"} THEN rec
    ELSE IF touched THEN Accessed(rec, k, residentAfter)
    ELSE SelectSeq(rec, LAMBDA x : x \in residentAfter)

\* trk: a round trip of TrackedKey.  st is "on" from a put(TrackedKey, val)
\* that returned until the next call naming TrackedKey (or removeAll), and
\* "done" right after a get(TrackedKey, out) that ended it, with what that
\* get returned in hit and ret; puts are the other keys put since that put;
\* hits are the other keys a get found, kept for the engines whose eviction
\* order a successful get changes by recency alone (ByRecency); gets are the
\* other keys asked of a get, kept for the engine that stages a put before
\* admitting it (Staging).  The engines compare keys for equality only, so
\* one tracked key stands for any.
ByRecency(e, s) == e = "LRU" \/ (e = "LRUK" /\ s.k = 1)
Staging(e, s) == e = "LRUK" /\ s.k = 2
TrackedKey == CHOOSE k \in Keys : \A j \in Keys : k <= j
NoTrack ==
    [st |-> "off", val |-> DefaultValue, puts |-> {}, hits |-> {}, gets |-> {},
     hit |-> FALSE, ret |-> DefaultValue]

TrackPut(t, k, v, returned) ==
    IF k = TrackedKey
    THEN IF returned THEN [NoTrack EXCEPT !.st = "on", !.val = v] ELSE NoTrack
    ELSE IF t.st = "on" THEN [t EXCEPT !.puts = @ \cup {k}] ELSE NoTrack

TrackGet(t, k, r, twoArg) ==
    IF k = TrackedKey
    THEN IF t.st = "on" /\ twoArg
         THEN [t EXCEPT !.st = "done", !.hit = r.hit,
                        !.ret = IF r.hit THEN r.value ELSE DefaultValue]
         ELSE NoTrack
    ELSE IF t.st = "on"
    THEN [t EXCEPT !.gets = IF Staging(engine, cache) THEN @ \cup {k} ELSE @,
                   !.hits = IF r.hit /\ ByRecency(engine, cache) THEN @ \cup {k} ELSE @]
    ELSE NoTrack

TrackRemove(t, k) == IF k # TrackedKey /\ t.st = "on" THEN t ELSE NoTrack

\* ref: the references to TrackedKey as its caller counts them.  cnt: the
\* puts and gets of TrackedKey made while it was not resident, since it last
\* became resident or was removed (remove, removeAll), counted up to MaxRefs;
\* val: the value of its most recent put since it was last removed; op: what
\* the last call was to TrackedKey ("put", "get" for get(key, value&), "get1"
\* for get(key)), "none" for a call that did not name it.
MaxRefs == CHOOSE m \in Ks : \A j \in Ks : j <= m
NoRef == [cnt |-> 0, val |-> NoValue, op |-> "none"]

RefAfter(r, op, k, v, residentBefore, residentAfter) ==
    IF op = "removeAll" \/ (op = "remove" /\ k = TrackedKey) THEN NoRef
    ELSE IF k # TrackedKey THEN [r EXCEPT !.op = "none"]
    ELSE [cnt |-> IF k \in residentBefore THEN r.cnt
                  ELSE IF k \in residentAfter THEN 0
                  ELSE Min2(r.cnt + 1, MaxRefs),
          val |-> IF op = "put" THEN v ELSE r.val,
          op |-> op]

\* The threads that call into one cache object, and what a thread is doing:
\* Idle, or inside the body of a call (between its entry and its return).
NumThreads == 2
Threads == 1..NumThreads
NoThread == 0
Idle == [op |-> "idle", key |-> 0, val |-> DefaultValue, raced |-> FALSE]
Calls ==
    [op : {"put"}, key : Keys, val : Values, raced : {FALSE}]
      \cup [op : {"get", "remove"}, key : Keys, val : {DefaultValue}, raced : {FALSE}]
      \cup [op : {"removeAll"}, key : {0}, val : {DefaultValue}, raced : {FALSE}]

\* Whether put, get, remove and removeAll of the engine open with a
\* std::lock_guard on the object's mutex.  LfuAgingCache and the LfuCache of
\* part_002 have no mutex.
Locks(e) == e \notin {"AGING", "LFUPLAIN"}

(* -------------------------------- Init --------------------------------- *)
InitOf(E) ==
    /\ engine \in E
    /\ arg \in Args(engine)
    /\ status \in CtorOutcomes(engine, arg)
    /\ cache = Construct(engine, arg)
    /\ out = DefaultValue
    /\ last = NoCall
    /\ rec = <<>>
    /\ trk = NoTrack
    /\ thr = [t \in Threads |-> Idle]
    /\ mu = NoThread
    /\ ref = NoRef

Init == InitOf(Engines)

(* ------------------------------- actions ------------------------------- *)
\* What the engine's put and get compute in the current state.
PutResult(k, v, order) == EnginePut(engine, cache, k, v, order)
GetResult(k, order) == EngineGet(engine, cache, k, order)

\* The iteration orders open to a put (the node set after the call does not
\* depend on the order) and to a get.
PutOrders(k, v) == OrdersOf(engine, Resident(engine, PutResult(k, v, <<>>).s))
GetOrders == OrdersOf(engine, Resident(engine, cache))

\* put(key, value) on the object: the call returns, or never does (status
\* "fault").
PutStep(k, v, order) ==
    /\ status = "ok"
    /\ k \in Resident(engine, cache) => WithinBounds(engine, cache, k)
    /\ LET r == PutResult(k, v, order)
       IN  /\ cache' = r.s
           /\ status' = IF r.ok THEN "ok" ELSE "fault"
           /\ rec' = RecAfter(TRUE, k, Resident(engine, r.s))
    /\ out' = DefaultValue
    /\ UNCHANGED <<engine, arg>>

\* bool get(key, value&) on the object, called with a variable holding
\* given; the variable is written on a hit only.
GetStep(k, given, order) ==
    /\ status = "ok"
    /\ WithinBounds(engine, cache, k)
    /\ LET r == GetResult(k, order)
       IN  /\ cache' = r.s
           /\ out' = IF r.hit THEN r.value ELSE given
           /\ rec' = RecAfter(r.hit, k, Resident(engine, r.s))
    /\ UNCHANGED <<engine, arg, status>>

\* Value get(key) on the object: a local Value, get(key, local), then the
\* local or Value{} is returned, or (ARCCache) std::out_of_range is thrown.
GetDefaultStep(k, order) ==
    /\ status = "ok"
    /\ WithinBounds(engine, cache, k)
    /\ LET r == GetResult(k, order)
       IN  /\ cache' = r.s
           /\ rec' = RecAfter(r.hit, k, Resident(engine, r.s))
    /\ out' = DefaultValue
    /\ UNCHANGED <<engine, arg, status>>

\* remove(key) on the object.
RemoveStep(k) ==
    /\ status = "ok"
    /\ cache' = EngineRemove(engine, cache, k)
    /\ rec' = RecAfter(FALSE, k, Resident(engine, cache'))
    /\ out' = DefaultValue
    /\ UNCHANGED <<engine, arg, status>>

\* removeAll() on the object.
RemoveAllStep ==
    /\ status = "ok"
    /\ cache' = EngineRemoveAll(engine, cache)
    /\ rec' = RecAfter(FALSE, 0, Resident(engine, cache'))
    /\ out' = DefaultValue
    /\ UNCHANGED <<engine, arg, status>>

\* The calls, each recorded in last.
Put(k, v) ==
    /\ \E order \in PutOrders(k, v) : PutStep(k, v, order)
    /\ last' = Call("put", k, k \in Resident(engine, cache), v, DefaultValue, FALSE, cache')
    /\ UNCHANGED <<trk, thr, mu, ref>>

Get(k, given) ==
    /\ \E order \in GetOrders :
         /\ GetStep(k, given, order)
         /\ LET r == GetResult(k, order)
            IN  last' = Call("get", k, r.hit, IF r.hit THEN r.value ELSE DefaultValue,
                             given, FALSE, r.s)
    /\ UNCHANGED <<trk, thr, mu, ref>>

GetDefault(k) ==
    /\ \E order \in GetOrders :
         /\ GetDefaultStep(k, order)
         /\ LET r == GetResult(k, order)
            IN  last' = Call("get1", k, r.hit, IF r.hit THEN r.value ELSE DefaultValue,
                             DefaultValue, GetDefaultThrows(engine, r.hit), r.s)
    /\ UNCHANGED <<trk, thr, mu, ref>>

Remove(k) ==
    /\ RemoveStep(k)
    /\ last' = Call("remove", k, k \in Resident(engine, cache), DefaultValue,
                    DefaultValue, FALSE, cache')
    /\ UNCHANGED <<trk, thr, mu, ref>>

RemoveAll ==
    /\ RemoveAllStep
    /\ last' = Call("removeAll", 0, FALSE, DefaultValue, DefaultValue, FALSE, cache')
    /\ UNCHANGED <<trk, thr, mu, ref>>

Next ==
    \/ \E k \in Keys, v \in Values : Put(k, v)
    \/ \E k \in Keys, given \in Values : Get(k, given)
    \/ \E k \in Keys : GetDefault(k)
    \/ \E k \in Keys : Remove(k)
    \/ RemoveAll

Spec == Init /\ [][Next]_vars

\* The same calls with the round-trip observer trk recording them in place
\* of last.
TPut(k, v) ==
    /\ \E order \in PutOrders(k, v) : PutStep(k, v, order)
    /\ trk' = TrackPut(trk, k, v, status' = "ok")
    /\ UNCHANGED <<last, thr, mu, ref>>

TGet(k, given) ==
    /\ \E order \in GetOrders :
         /\ GetStep(k, given, order)
         /\ trk' = TrackGet(trk, k, GetResult(k, order), TRUE)
    /\ UNCHANGED <<last, thr, mu, ref>>

TGetDefault(k) ==
    /\ \E order \in GetOrders :
         /\ GetDefaultStep(k, order)
         /\ trk' = TrackGet(trk, k, GetResult(k, order), FALSE)
    /\ UNCHANGED <<last, thr, mu, ref>>

TRemove(k) ==
    RemoveStep(k) /\ trk' = TrackRemove(trk, k) /\ UNCHANGED <<last, thr, mu, ref>>

TRemoveAll == RemoveAllStep /\ trk' = NoTrack /\ UNCHANGED <<last, thr, mu, ref>>

NextTrack ==
    \/ \E k \in Keys, v \in Values : TPut(k, v)
    \/ \E k \in Keys, given \in Values : TGet(k, given)
    \/ \E k \in Keys : TGetDefault(k)
    \/ \E k \in Keys : TRemove(k)
    \/ TRemoveAll

SpecTrack == Init /\ [][NextTrack]_vars

\* The same calls with the reference observer ref recording them.
RPut(k, v) ==
    /\ \E order \in PutOrders(k, v) : PutStep(k, v, order)
    /\ ref' = RefAfter(ref, "put", k, v, Resident(engine, cache), Resident(engine, cache'))
    /\ UNCHANGED <<last, trk, thr, mu>>

RGet(k, given) ==
    /\ \E order \in GetOrders : GetStep(k, given, order)
    /\ ref' = RefAfter(ref, "get", k, DefaultValue,
                       Resident(engine, cache), Resident(engine, cache'))
    /\ UNCHANGED <<last, trk, thr, mu>>

RGetDefault(k) ==
    /\ \E order \in GetOrders : GetDefaultStep(k, order)
    /\ ref' = RefAfter(ref, "get1", k, DefaultValue,
                       Resident(engine, cache), Resident(engine, cache'))
    /\ UNCHANGED <<last, trk, thr, mu>>

RRemove(k) ==
    /\ RemoveStep(k)
    /\ ref' = RefAfter(ref, "remove", k, DefaultValue,
                       Resident(engine, cache), Resident(engine, cache'))
    /\ UNCHANGED <<last, trk, thr, mu>>

RRemoveAll ==
    /\ RemoveAllStep
    /\ ref' = NoRef
    /\ UNCHANGED <<last, trk, thr, mu>>

NextRefs ==
    \/ \E k \in Keys, v \in Values : RPut(k, v)
    \/ \E k \in Keys, given \in Values : RGet(k, given)
    \/ \E k \in Keys : RGetDefault(k)
    \/ \E k \in Keys : RRemove(k)
    \/ RRemoveAll

\* LruKCache with the reference observer.
SpecRefs == InitOf({"LRUK"}) /\ [][NextRefs]_vars

\* An ARCCache of capacity WideCap called with the keys of WideKeys, one
\* value, and no observer.  The calls are followed while p_ is at most
\* capacity_: a p_ that has wrapped below 0 is a count near the top of
\* size_t that further ghost hits step down without end.
InitWide ==
    /\ engine = "ARC"
    /\ arg = [cap |-> WideCap]
    /\ status = "ok"
    /\ cache = ARCCache(WideCap)
    /\ out = DefaultValue
    /\ last = NoCall
    /\ rec = <<>>
    /\ trk = NoTrack
    /\ thr = [t \in Threads |-> Idle]
    /\ mu = NoThread
    /\ ref = NoRef

PFollowed == cache.p <= cache.capacity

WPut(k) ==
    PFollowed /\ PutStep(k, DefaultValue, <<>>) /\ UNCHANGED <<last, trk, thr, mu, ref>>
WGet(k) ==
    PFollowed /\ GetStep(k, DefaultValue, <<>>) /\ UNCHANGED <<last, trk, thr, mu, ref>>
WRemove(k) == PFollowed /\ RemoveStep(k) /\ UNCHANGED <<last, trk, thr, mu, ref>>
WRemoveAll == PFollowed /\ RemoveAllStep /\ UNCHANGED <<last, trk, thr, mu, ref>>

NextWide ==
    \/ \E k \in WideKeys : WPut(k)
    \/ \E k \in WideKeys : WGet(k)
    \/ \E k \in WideKeys : WRemove(k)
    \/ WRemoveAll

SpecArcWide == InitWide /\ [][NextWide]_vars

\* An LruKCache with k_ = 1 and, beside it, a plain LruCache of the main
\* cache's capacity that is given the same calls: ref holds the LruCache and
\* what its last get returned.
InitTwin ==
    /\ engine = "LRUK"
    /\ arg \in [cap : Caps, k : {1}, hist : HistCaps]
    /\ status \in CtorOutcomes(engine, arg)
    /\ cache = Construct(engine, arg)
    /\ out = DefaultValue
    /\ last = NoCall
    /\ rec = <<>>
    /\ trk = NoTrack
    /\ thr = [t \in Threads |-> Idle]
    /\ mu = NoThread
    /\ ref = [lru |-> LruCache(arg.cap), hit |-> FALSE, value |-> DefaultValue]

TwinPut(k, v) ==
    /\ PutStep(k, v, <<>>)
    /\ last' = Call("put", k, k \in Resident(engine, cache), v, DefaultValue, FALSE, cache')
    /\ ref' = [lru |-> LruPut(ref.lru, k, v), hit |-> FALSE, value |-> DefaultValue]
    /\ UNCHANGED <<trk, thr, mu>>

\* get(key, value&) on both, each with a variable holding given.
TwinGet(k, given) ==
    /\ GetStep(k, given, <<>>)
    /\ LET r == GetResult(k, <<>>)
           t == LruGet(ref.lru, k)
       IN  /\ last' = Call("get", k, r.hit, out', given, FALSE, r.s)
           /\ ref' = [lru |-> t.c, hit |-> t.hit,
                      value |-> IF t.hit THEN t.value ELSE given]
    /\ UNCHANGED <<trk, thr, mu>>

\* Value get(key) on both: LruCache::get(key) returns its local, Value{} on a
\* miss.
TwinGetDefault(k) ==
    /\ GetDefaultStep(k, <<>>)
    /\ LET r == GetResult(k, <<>>)
           t == LruGet(ref.lru, k)
       IN  /\ last' = Call("get1", k, r.hit, IF r.hit THEN r.value ELSE DefaultValue,
                           DefaultValue, FALSE, r.s)
           /\ ref' = [lru |-> t.c, hit |-> t.hit,
                      value |-> IF t.hit THEN t.value ELSE DefaultValue]
    /\ UNCHANGED <<trk, thr, mu>>

TwinRemove(k) ==
    /\ RemoveStep(k)
    /\ last' = Call("remove", k, k \in Resident(engine, cache), DefaultValue,
                    DefaultValue, FALSE, cache')
    /\ ref' = [lru |-> LruRemove(ref.lru, k), hit |-> FALSE, value |-> DefaultValue]
    /\ UNCHANGED <<trk, thr, mu>>

TwinRemoveAll ==
    /\ RemoveAllStep
    /\ last' = Call("removeAll", 0, FALSE, DefaultValue, DefaultValue, FALSE, cache')
    /\ ref' = [lru |-> LruRemoveAll(ref.lru), hit |-> FALSE, value |-> DefaultValue]
    /\ UNCHANGED <<trk, thr, mu>>

NextTwin ==
    \/ \E k \in Keys, v \in Values : TwinPut(k, v)
    \/ \E k \in Keys, given \in Values : TwinGet(k, given)
    \/ \E k \in Keys : TwinGetDefault(k)
    \/ \E k \in Keys : TwinRemove(k)
    \/ TwinRemoveAll

SpecTwin == InitTwin /\ [][NextTwin]_vars

\* One engine at a time.
SpecLru == InitOf({"LRU"}) /\ [][Next]_vars
SpecLfu == InitOf({"LFU"}) /\ [][Next]_vars
SpecLfuPlain == InitOf({"LFUPLAIN"}) /\ [][Next]_vars
SpecAging == InitOf({"AGING"}) /\ [][Next]_vars
SpecLruK == InitOf({"LRUK"}) /\ [][Next]_vars
SpecArc == InitOf({"ARC"}) /\ [][Next]_vars

\* The two sharded wrappers.
SpecShards == InitOf(Wrappers) /\ [][Next]_vars

(* --------------------------- concurrent callers ------------------------ *)
\* The threads inside a call's body.
InBody == {t \in Threads : thr[t].op # "idle"}

\* Thread t calls c.op: it takes the mutex where the engine has one (and
\* waits while another thread holds it), then is inside the body.  Where two
\* threads are inside a body together, both calls are marked raced.
Enter(t, c) ==
    /\ status = "ok"
    /\ thr[t] = Idle
    /\ c.op \in {"put", "get"} /\ (c.op = "get" \/ c.key \in Resident(engine, cache))
         => WithinBounds(engine, cache, c.key)
    /\ IF Locks(engine) THEN mu = NoThread /\ mu' = t ELSE UNCHANGED mu
    /\ thr' = [u \in Threads |->
                 IF u = t THEN [c EXCEPT !.raced = InBody # {}]
                 ELSE IF thr[u].op # "idle" THEN [thr[u] EXCEPT !.raced = TRUE]
                 ELSE thr[u]]
    /\ UNCHANGED <<engine, arg, status, cache, out, last, rec, trk, ref>>

\* The effect of the body of thread t's call when it ran alone.
BodyStep(c) ==
    CASE c.op = "put" -> \E order \in PutOrders(c.key, c.val) : PutStep(c.key, c.val, order)
      [] c.op = "get" -> \E order \in GetOrders : GetStep(c.key, DefaultValue, order)
      [] c.op = "remove" -> RemoveStep(c.key)
      [] c.op = "removeAll" -> RemoveAllStep

\* Thread t's call returns and the lock_guard, if any, releases the mutex.
\* A body that shared the object with another body ran unsynchronised on the
\* same containers: it has the call's effect, or it never returns.
Leave(t) ==
    /\ thr[t].op # "idle"
    /\ \/ BodyStep(thr[t])
       \/ /\ thr[t].raced
          /\ status = "ok"
          /\ status' = "fault"
          /\ UNCHANGED <<engine, arg, cache, out, rec>>
    /\ thr' = [thr EXCEPT ![t] = Idle]
    /\ mu' = IF Locks(engine) THEN NoThread ELSE mu
    /\ UNCHANGED <<last, trk, ref>>

NextThreads ==
    \/ \E t \in Threads, c \in Calls : Enter(t, c)
    \/ \E t \in Threads : Leave(t)

SpecThreads == Init /\ [][NextThreads]_vars

(* ------------------ concurrent callers of a wrapper -------------------- *)
\* The mutexes of a wrapper: per shard, Shard::mtx ("shard"); in
\* HashLruKCache also the shard's LruKCache::mtx_ ("engine") and the m_mutex
\* of the two LruCache objects inside it, the base ("main") and history_
\* ("history").  LfuAgingCache has no mutex.
Mutexes(w) == {"shard", "engine", "main", "history"} \X (1..Len(w.shards))

\* A thread is idle, or in a call: pc is how far it has come and at is the
\* shard it is working on.
ShardIdle == [op |-> "idle", key |-> 0, pc |-> "idle", at |-> 0]
ShardCalls ==
    [op : {"put", "get", "remove"}, key : Keys] \cup [op : {"removeAll"}, key : {0}]

\* The iteration orders open to the shard that key k is routed to.
ShardOrders(w, k) ==
    OrdersOf(engine, {j \in Keys : getShard(w, j) = getShard(w, k)})

\* The largest shard count HashLruKCache's static_assert admits.
LruKShards == CHOOSE m \in ShardCounts :
                 IsPowerOfTwo(m) /\ \A j \in ShardCounts : IsPowerOfTwo(j) => j <= m

\* One wrapper of each class, every shard of capacity 1, no thread in a call,
\* every mutex free.
InitShardThreads ==
    /\ engine \in Wrappers
    /\ arg \in IF engine = "HASHAGING"
               THEN [total : {MaxShards}, n : {MaxShards}, limit : Limits]
               ELSE [n : {LruKShards}, cap : {1}, k : {1}, hist : {1}]
    /\ status = "ok"
    /\ cache = Construct(engine, arg)
    /\ out = DefaultValue
    /\ last = NoCall
    /\ rec = <<>>
    /\ trk = NoTrack
    /\ thr = [t \in Threads |-> ShardIdle]
    /\ mu = [m \in Mutexes(cache) |-> NoThread]
    /\ ref = NoRef

\* Thread t calls c: getShard(key) picks the shard; removeAll starts its
\* loop at the first shard.
Start(t, c) ==
    /\ status = "ok"
    /\ thr[t] = ShardIdle
    /\ c.op \in {"put", "get"} /\ (c.op = "get" \/ c.key \in Resident(engine, cache))
         => WithinBounds(engine, cache, c.key)
    /\ thr' = [thr EXCEPT ![t] = [op |-> c.op, key |-> c.key, pc |-> "call",
                                  at |-> IF c.op = "removeAll" THEN 1
                                         ELSE getShard(cache, c.key)]]
    /\ UNCHANGED <<engine, arg, status, cache, out, last, rec, trk, mu, ref>>

\* std::lock_guard: thread t takes mutex m when it is free, and is at pc
\* "to" then.
Lock(t, from, kind, to) ==
    /\ status = "ok"
    /\ thr[t].pc = from
    /\ mu[<<kind, thr[t].at>>] = NoThread
    /\ mu' = [mu EXCEPT ![<<kind, thr[t].at>>] = t]
    /\ thr' = [thr EXCEPT ![t].pc = to]
    /\ UNCHANGED <<engine, arg, status, cache, out, last, rec, trk, ref>>

\* The lock_guard's scope ends.
Unlock(t, from, kind, to) ==
    /\ status = "ok"
    /\ thr[t].pc = from
    /\ mu[<<kind, thr[t].at>>] = t
    /\ mu' = [mu EXCEPT ![<<kind, thr[t].at>>] = NoThread]
    /\ thr' = [thr EXCEPT ![t].pc = to]
    /\ UNCHANGED <<engine, arg, status, cache, out, last, rec, trk, ref>>

\* std::lock_guard guard(shard.mtx).
LockShard(t) == thr[t].op # "idle" /\ Lock(t, "call", "shard", "shard")

\* HashLruKCache: shard.cache.put / get / remove / removeAll opens with
\* lock_guard lk(mtx_); the LruKCache method then calls the base LruCache,
\* which locks and releases its m_mutex, and may go on to call history_,
\* which locks and releases its own.
LockEngine(t) == engine = "HASHLRUK" /\ Lock(t, "shard", "engine", "engine0")
LockMain(t) == engine = "HASHLRUK" /\ Lock(t, "engine0", "main", "main")
UnlockMain(t) == engine = "HASHLRUK" /\ Unlock(t, "main", "main", "engine1")
LockHistory(t) == engine = "HASHLRUK" /\ Lock(t, "engine1", "history", "history")
UnlockHistory(t) == engine = "HASHLRUK" /\ Unlock(t, "history", "history", "engine2")

\* What shard.cache.<op> does to the wrapper, the shard's mutex held.
ShardBody(t) ==
    LET c == thr[t]
    IN  CASE c.op = "put" ->
               \E order \in ShardOrders(cache, c.key) :
                  LET r == EnginePut(engine, cache, c.key, DefaultValue, order)
                  IN  /\ cache' = r.s
                      /\ status' = IF r.ok THEN "ok" ELSE "fault"
          [] c.op = "get" ->
               \E order \in ShardOrders(cache, c.key) :
                  /\ cache' = EngineGet(engine, cache, c.key, order).s
                  /\ status' = status
          [] c.op = "remove" ->
               /\ cache' = EngineRemove(engine, cache, c.key)
               /\ status' = status
          [] c.op = "removeAll" ->
               /\ cache' = [cache EXCEPT !.shards[c.at] =
                              IF engine = "HASHAGING" THEN AgRemoveAll(@)
                              ELSE LruKRemoveAll(@)]
               /\ status' = status

\* HashLfuAgingCache: the engine's method runs under the shard's mutex alone.
\* A put that never returns leaves the thread where it is, the mutex held.
RunBody(t) ==
    /\ status = "ok"
    /\ engine = "HASHAGING"
    /\ thr[t].pc = "shard"
    /\ ShardBody(t)
    /\ thr' = [thr EXCEPT ![t].pc = IF status' = "ok" THEN "shardDone" ELSE @]
    /\ UNCHANGED <<engine, arg, out, last, rec, trk, mu, ref>>

\* HashLruKCache: the LruKCache method ends and its lock_guard releases mtx_.
UnlockEngine(t) ==
    /\ status = "ok"
    /\ thr[t].pc \in {"engine1", "engine2"}
    /\ mu[<<"engine", thr[t].at>>] = t
    /\ ShardBody(t)
    /\ mu' = [mu EXCEPT ![<<"engine", thr[t].at>>] = NoThread]
    /\ thr' = [thr EXCEPT ![t].pc = "shardDone"]
    /\ UNCHANGED <<engine, arg, out, last, rec, trk, ref>>

\* The wrapper's lock_guard releases shard.mtx: the call returns, or
\* removeAll's loop goes on to the next shard.
UnlockShard(t) ==
    /\ status = "ok"
    /\ thr[t].pc = "shardDone"
    /\ mu[<<"shard", thr[t].at>>] = t
    /\ mu' = [mu EXCEPT ![<<"shard", thr[t].at>>] = NoThread]
    /\ thr' = [thr EXCEPT ![t] =
                 IF thr[t].op = "removeAll" /\ thr[t].at < Len(cache.shards)
                 THEN [@ EXCEPT !.pc = "call", !.at = @ + 1]
                 ELSE ShardIdle]
    /\ UNCHANGED <<engine, arg, status, cache, out, last, rec, trk, ref>>

\* A step of thread t inside its call.
Proceed(t) ==
    \/ LockShard(t)
    \/ RunBody(t)
    \/ LockEngine(t)
    \/ LockMain(t)
    \/ UnlockMain(t)
    \/ LockHistory(t)
    \/ UnlockHistory(t)
    \/ UnlockEngine(t)
    \/ UnlockShard(t)

NextShardThreads ==
    \/ \E t \in Threads, c \in ShardCalls : Start(t, c)
    \/ \E t \in Threads : LockShard(t)
    \/ \E t \in Threads : RunBody(t)
    \/ \E t \in Threads : LockEngine(t)
    \/ \E t \in Threads : LockMain(t)
    \/ \E t \in Threads : UnlockMain(t)
    \/ \E t \in Threads : LockHistory(t)
    \/ \E t \in Threads : UnlockHistory(t)
    \/ \E t \in Threads : UnlockEngine(t)
    \/ \E t \in Threads : UnlockShard(t)

\* Fair scheduling: a thread that can take a step inside its call again and
\* again does take one (std::mutex hands a free mutex to a waiting thread).
SpecShardThreads ==
    /\ InitShardThreads
    /\ [][NextShardThreads]_vars
    /\ \A t \in Threads : SF_vars(Proceed(t))

(* ------------------------------ properties ----------------------------- *)
\* A property of one call is a formula [][A => B]_vars whose A holds of the
\* steps that are that call.  Put, Get and Remove record the call in last',
\* so A first tests last'.op and last'.key: that adds nothing to the action
\* and spares evaluating it on the steps of other calls.

\* The entries an engine's structure holds, counted the way the structure
\* stores them: the nodes on LruCache's list, the nodes on LfuCache's and
\* LfuAgingCache's frequency lists.
RECURSIVE SumLen(_, _)
SumLen(fl, fs) ==
    IF fs = {} THEN 0
    ELSE LET f == CHOOSE x \in fs : TRUE IN Len(fl[f]) + SumLen(fl, fs \ {f})

Held(e, s) ==
    CASE e = "LRU" -> Len(LruList(s))
      [] e = "LFU" -> SumLen(s.fl, DOMAIN s.fl)
      [] e = "AGING" -> SumLen(s.fl, DOMAIN s.fl)
      [] e = "LRUK" -> Len(LruList(s.main))
      [] e = "ARC" -> Len(s.t1) + Len(s.t2)

\* C1: LruCache, LfuCache, LfuAgingCache and LruKCache's main cache, built
\* with a capacity C >= 1, never hold more than C entries after a call: the
\* keys get finds and the nodes on the lists both number at most C.
C1_BoundedSize ==
    (engine \in {"LRU", "LFU", "AGING", "LRUK"} /\ Capacity(engine, cache) >= 1)
        => /\ Cardinality(Resident(engine, cache)) <= Capacity(engine, cache)
           /\ Held(engine, cache) <= Capacity(engine, cache)

\* C1 happens: a put of a new key into a full cache of the largest capacity
\* pushed a key out and left the cache exactly full.
C1_Witness ==
    /\ engine \in {"LRU", "LFU", "AGING", "LRUK"}
    /\ status = "ok"
    /\ last.op = "put" /\ ~last.hit /\ last.gone # {}
    /\ Capacity(engine, cache) = MaxCap
    /\ Cardinality(Resident(engine, cache)) = MaxCap

\* C2: on LruCache, a put of a key that is not resident into a full cache
\* (capacity >= 1) removes exactly the key whose last access (insertion,
\* overwriting put or successful get) is the oldest, stores the new key, and
\* leaves every other resident key with its value.
C2_LruEvictsLeastRecentlyAccessed ==
    [][\A k \in Keys, v \in Values :
         (/\ engine = "LRU"
          /\ last'.op = "put" /\ last'.key = k
          /\ Put(k, v)
          /\ k \notin cache.map
          /\ cache.cap >= 1
          /\ Cardinality(cache.map) = cache.cap)
         => /\ rec # <<>>
            /\ cache'.map = (cache.map \ {Head(rec)}) \cup {k}
            /\ cache'.val[k] = v
            /\ \A j \in cache.map \ {Head(rec)} : cache'.val[j] = cache.val[j]
            /\ LruList(cache') = Append(Tail(rec), k)]_vars

\* C2 happens: a full LruCache of the largest capacity took a put of a new
\* key, lost exactly one key, and holds the new key as its most recent.
C2_Witness ==
    /\ engine = "LRU"
    /\ last.op = "put" /\ ~last.hit
    /\ Cardinality(last.gone) = 1
    /\ cache.cap = MaxCap
    /\ Len(rec) = MaxCap
    /\ rec[Len(rec)] = last.key

\* What may come between put(k, v) and get(k, out) for the get to be sure of
\* v, per engine: on LruCache (and LruKCache with k = 1, where every put goes
\* to the main cache) fewer than C other distinct keys put or found by a get;
\* on LfuCache, LfuAgingCache and ARCCache no put of another key; on
\* LruKCache with k = 2 no put and no get of another key; nothing is
\* promised for a larger k.
RoundTripBound(e, s, t) ==
    CASE ByRecency(e, s) -> Cardinality(t.puts \cup t.hits) < Capacity(e, s)
      [] Staging(e, s) -> t.puts = {} /\ t.gets = {}
      [] e \in {"LFU", "AGING", "ARC"} -> t.puts = {}
      [] OTHER -> FALSE

\* C3 (as amended): on every engine with capacity C >= 1, when put(k, v) has
\* returned, no other call named k, no removeAll ran, and what came between
\* stays within RoundTripBound, get(k, out) returns true and sets out to v.
C3_RoundTrip ==
    (/\ trk.st = "done"
     /\ Capacity(engine, cache) >= 1
     /\ RoundTripBound(engine, cache, trk))
        => trk.hit /\ trk.ret = trk.val /\ out = trk.val

\* C3 as stated: the same with "fewer than C other distinct keys were put in
\* between" for every engine.
C3_RoundTripAsStated ==
    (/\ trk.st = "done"
     /\ Capacity(engine, cache) >= 1
     /\ Cardinality(trk.puts) < Capacity(engine, cache))
        => trk.hit /\ trk.ret = trk.val /\ out = trk.val

\* C3 happens: on an LruCache of the largest capacity a round trip succeeded
\* with C - 1 other keys accessed in between, one of them only through get.
C3_Witness ==
    /\ engine = "LRU"
    /\ cache.cap = MaxCap
    /\ trk.st = "done"
    /\ Cardinality(trk.puts \cup trk.hits) = MaxCap - 1
    /\ trk.hits \ trk.puts # {}
    /\ trk.hit /\ trk.ret = trk.val /\ out = trk.val

\* C4: on ARCCache every put runs to completion: evictSlot never takes the
\* front of an empty T1 or T2.
C4_ArcPutCompletes == engine = "ARC" => status # "fault"

\* The access side effect of a put or get that found key k, per engine:
\* LruCache and LruKCache's main cache move k to the most-recent end;
\* LfuCache adds one to k's frequency; LfuAgingCache does the same unless
\* the call ages the cache; ARCCache puts k at the most-recent end of T2.
AccessEffect(e, s, t, k) ==
    CASE e = "LRU" -> LruList(t) = Append(Without(LruList(s), k), k)
      [] e = "LRUK" -> LruList(t.main) = Append(Without(LruList(s.main), k), k)
      [] e = "LFU" -> t.freq[k] = s.freq[k] + 1
      [] e = "AGING" -> \/ t.freq[k] = s.freq[k] + 1
                        \/ s.total + 1 > s.limit * Cardinality(s.nodes)
      [] e = "ARC" -> /\ t.t1 = Without(s.t1, k)
                      /\ t.t2 = Append(Without(s.t2, k), k)

\* C5: on every engine a put of a resident key returns, stores the new
\* value, applies the access side effect, evicts nothing, and leaves the
\* resident set and every other key's value as they were.
C5_OverwriteResident ==
    [][\A k \in Keys, v \in Values :
         (/\ k \in Resident(engine, cache)
          /\ last'.op = "put" /\ last'.key = k
          /\ Put(k, v))
         => /\ status' = "ok"
            /\ Resident(engine, cache') = Resident(engine, cache)
            /\ StoredValue(engine, cache', k) = v
            /\ \A order \in OrdersOf(engine, Resident(engine, cache')) :
                  /\ EngineGet(engine, cache', k, order).hit
                  /\ EngineGet(engine, cache', k, order).value = v
            /\ \A j \in Resident(engine, cache) \ {k} :
                  StoredValue(engine, cache', j) = StoredValue(engine, cache, j)
            /\ AccessEffect(engine, cache, cache', k)]_vars

\* C5 happens: a full LfuCache took a put of a resident key that had been
\* accessed before; nothing left the cache and the key holds the value put.
C5_Witness ==
    /\ engine = "LFU"
    /\ last.op = "put" /\ last.hit /\ last.gone = {}
    /\ Cardinality(cache.nodes) = MaxCap
    /\ cache.freq[last.key] >= 3
    /\ cache.val[last.key] = last.ret
    /\ last.ret # DefaultValue

\* C6: on LruCache, LfuCache, LfuAgingCache and ARCCache, get(key, out) of a
\* key that is not resident (ghost keys of ARC included) returns false,
\* leaves out as the caller gave it, and leaves every member of the engine
\* as it was.
C6_MissLeavesStateUnchanged ==
    [][\A k \in Keys, given \in Values :
         (/\ engine \in {"LRU", "LFU", "AGING", "ARC"}
          /\ k \notin Resident(engine, cache)
          /\ last'.op = "get" /\ last'.key = k
          /\ Get(k, given))
         => /\ ~last'.hit
            /\ out' = given
            /\ cache' = cache
            /\ status' = status]_vars

\* C6 happens: an ARCCache with a non-default value in the caller's variable
\* was asked for a key that is only on a ghost list, and answered false.
C6_Witness ==
    /\ engine = "ARC"
    /\ last.op = "get" /\ ~last.hit
    /\ last.given # DefaultValue /\ out = last.given
    /\ last.key \in Elems(cache.b1) \cup Elems(cache.b2)
    /\ cache.p > 0

\* C7: on every engine the single-argument get never ends in an exception;
\* it returns Value{} for a key that is not resident.
C7_GetDefaultNeverThrows == last.op = "get1" => ~last.threw

\* Whether the engine holds key k anywhere: resident, on a ghost list, in
\* the history or staged, or as a value left in store_map_.
HeldAnywhere(e, s, k) ==
    CASE e = "LRUK" -> k \in s.main.map \/ k \in s.history.map \/ s.store[k] # NoValue
      [] e = "ARC" -> \/ k \in Elems(s.t1) \cup Elems(s.t2) \cup Elems(s.b1) \cup Elems(s.b2)
                      \/ s.store[k] # NoValue
      [] OTHER -> k \in Resident(e, s)

\* C8: on every engine remove(k) of a key held nowhere leaves the engine as
\* it was; after any remove(k) the key is not resident and get(k, out)
\* returns false; a second remove(k) changes nothing more.
C8_RemoveIdempotent ==
    [][\A k \in Keys :
         (last'.op = "remove" /\ last'.key = k /\ Remove(k))
         => /\ status' = "ok"
            /\ ~HeldAnywhere(engine, cache, k) => cache' = cache
            /\ k \notin Resident(engine, cache')
            /\ \A order \in OrdersOf(engine, Resident(engine, cache')) :
                  ~EngineGet(engine, cache', k, order).hit
            /\ EngineRemove(engine, cache', k) = cache']_vars

\* C8 happens: remove took a resident key out of a full cache of the largest
\* capacity while other keys stayed.
C8_Witness ==
    /\ last.op = "remove" /\ last.hit
    /\ last.gone = {last.key}
    /\ Capacity(engine, cache) = MaxCap
    /\ Cardinality(Resident(engine, cache)) = MaxCap - 1
    /\ engine = "LFU"

\* C9: after removeAll on every engine, get finds no key and every member
\* equals what the constructor set with the same arguments (minFreq_ 0,
\* totalFreqSum_ 0, history and historyStore_ empty, B1 and B2 empty, p 0).
C9_RemoveAllResets ==
    last.op = "removeAll"
        => /\ cache = Construct(engine, arg)
           /\ status = "ok"
           /\ \A k \in Keys : \A order \in OrdersOf(engine, Resident(engine, cache)) :
                 ~EngineGet(engine, cache, k, order).hit

\* C9 happens: removeAll emptied a full cache of the largest capacity.
C9_Witness ==
    /\ last.op = "removeAll"
    /\ Cardinality(last.gone) = MaxCap
    /\ arg.cap = MaxCap
    /\ engine = "ARC"

\* C10: a constructor handed a zero or negative capacity fails; no cache
\* object comes out of it.
C10_NonPositiveCapacityRejected == arg.cap <= 0 => status = "rejected"

\* C11: on every engine, each of put, get, remove and removeAll reads and
\* changes the object's state only while holding the engine's mutex, so no
\* two threads are inside the body of a call on the same object at once.
C11_BodiesExclusive == Cardinality(InBody) <= 1

\* C12: on LfuCache a resident key's frequency is 1 when it is inserted and
\* one more after each successful get and each overwriting put, and is
\* changed by nothing else; a put of a key that is not resident into a full
\* cache (capacity >= 1) returns and removes exactly the resident key of the
\* smallest frequency, the one accessed longest ago among equals.
C12_LfuEvictsLeastFrequent ==
    [][engine = "LFU" =>
         /\ \A j \in cache'.nodes :
              cache'.freq[j] =
                IF j \notin cache.nodes THEN 1
                ELSE IF last'.key = j /\ last'.op \in {"put", "get", "get1"}
                THEN cache.freq[j] + 1
                ELSE cache.freq[j]
         /\ (/\ last'.op = "put" /\ ~last'.hit
             /\ cache.cap >= 1
             /\ Cardinality(cache.nodes) = cache.cap)
            => /\ status' = "ok"
               /\ \E j \in cache.nodes :
                    /\ \A i \in cache.nodes \ {j} :
                         \/ cache.freq[j] < cache.freq[i]
                         \/ cache.freq[j] = cache.freq[i] /\ Before(rec, j, i)
                    /\ cache'.nodes = (cache.nodes \ {j}) \cup {last'.key}]_vars

\* C12 happens: a full LfuCache of capacity 2 whose one key had been read
\* twice since its insertion took a put of a new key and lost the other key.
C12_Witness ==
    /\ engine = "LFU"
    /\ cache.cap = 2
    /\ last.op = "put" /\ ~last.hit
    /\ Cardinality(last.gone) = 1
    /\ \E a \in cache.nodes \ {last.key} : cache.freq[a] = 3
    /\ cache.freq[last.key] = 1

\* The sum of node->freq over the nodes of nodes_.
RECURSIVE SumFreq(_, _)
SumFreq(freq, ks) ==
    IF ks = {} THEN 0
    ELSE LET k == CHOOSE x \in ks : TRUE IN freq[k] + SumFreq(freq, ks \ {k})

\* C13: on LfuAgingCache, after every put, get, remove and removeAll that
\* returned, an evicting put included, totalFreqSum_ equals the sum of the
\* frequencies of the resident keys.
C13_TotalIsSum ==
    engine = "AGING" /\ status = "ok" => cache.total = SumFreq(cache.freq, cache.nodes)

\* C14: on LfuAgingCache, when an insertion (a put of a key that was not
\* resident) or a touch (an overwriting put, a successful get) leaves
\* totalFreqSum_ / nodes_.size() above the limit, the call ends with every
\* resident frequency at max(1, old - floor(limit / 2)), where old counts
\* the insertion or touch, so at 1 or more; with the resident keys and their
\* values as the insertion or touch left them; and with totalFreqSum_ the
\* sum of the new frequencies.
C14_AgingPass ==
    [][(/\ engine = "AGING"
        /\ last'.op \in {"put", "get", "get1"}
        /\ status' = "ok")
       => LET k == last'.key
              inserted == last'.op = "put" /\ ~last'.hit /\ cache.cap >= 1
              touched == last'.hit
              nodesMid == IF inserted THEN (cache.nodes \ last'.gone) \cup {k}
                          ELSE cache.nodes
              freqMid == [cache.freq EXCEPT ![k] = IF inserted THEN 1 ELSE @ + 1]
              totalMid == cache.total + 1
          IN  (/\ inserted \/ touched
               /\ totalMid > cache.limit * Cardinality(nodesMid))
              => /\ cache'.nodes = nodesMid
                 /\ \A j \in nodesMid :
                      /\ cache'.freq[j] = Max2(1, freqMid[j] - (cache.limit \div 2))
                      /\ cache'.freq[j] >= 1
                      /\ cache'.val[j] = IF j = k /\ last'.op = "put" THEN last'.ret
                                         ELSE cache.val[j]
                 /\ cache'.total = SumFreq(cache'.freq, cache'.nodes)]_vars

\* C14 happens: a successful get on a full LfuAgingCache of the largest
\* capacity fired the aging pass (minFreq_ is 0 only right after ageAll),
\* both keys stayed, and a key that stood at frequency 3 is now at 2.
C14_Witness ==
    /\ engine = "AGING"
    /\ status = "ok"
    /\ last.op = "get" /\ last.hit
    /\ cache.minFreq = 0
    /\ Cardinality(cache.nodes) = MaxCap
    /\ cache.cap = MaxCap
    /\ \E j \in cache.nodes \ {last.key} : cache.freq[j] = MaxFreq - 1
    /\ cache.freq[last.key] = 1

\* The call before was put(a, v) on an LruKCache with k = 2 that knew
\* nothing of a: a is outside the main cache and its history count is 1,
\* which a put leaves only where it found a neither in the main cache nor
\* in the history.
JustStaged(a) ==
    /\ engine = "LRUK"
    /\ status = "ok"
    /\ cache.k = 2
    /\ cache.main.cap >= 1
    /\ last.op = "put" /\ last.key = a
    /\ a \notin cache.main.map
    /\ a \in cache.history.map /\ cache.history.val[a] = 1
    /\ cache.store[a] = last.ret

\* C15 (as the code has it): on an LruKCache with k = 2 and main capacity
\* >= 1, after put(a, v) of a key unknown to the cache, the next call get(a)
\* is the second reference to a: it installs a in the main cache with v,
\* clears a from history and staging, and returns true with v.
C15_GetAfterPutPromotes ==
    [][\A a \in Keys, given \in Values :
         (/\ JustStaged(a)
          /\ last'.op = "get" /\ last'.key = a
          /\ Get(a, given))
         => /\ last'.hit
            /\ out' = last.ret
            /\ a \in cache'.main.map
            /\ cache'.main.val[a] = last.ret
            /\ a \notin cache'.history.map
            /\ cache'.store[a] = NoValue]_vars

\* C15 as stated: after put(a, 1); get(a) on an LruKCache with k = 2, the
\* get reports a miss and a is still outside the main cache.
C15_GetAfterPutMisses ==
    [][\A a \in Keys, given \in Values :
         (/\ JustStaged(a)
          /\ last'.op = "get" /\ last'.key = a
          /\ Get(a, given))
         => /\ ~last'.hit
            /\ a \notin cache'.main.map]_vars

\* C15 happens: put(a, v) with v not the default value, then get(a, out)
\* with out holding the default value, on an LruKCache with k = 2: the get
\* found a, and a is in the main cache and no longer staged.
C15_Witness ==
    /\ engine = "LRUK"
    /\ cache.k = 2
    /\ last.op = "get" /\ last.hit
    /\ last.given = DefaultValue
    /\ out # DefaultValue
    /\ cache.main.map = {last.key}
    /\ cache.history.map = {}
    /\ \A x \in Keys : cache.store[x] = NoValue

\* C16: on LruKCache a key becomes resident in the main cache only in a put
\* or get of that key, and only when that call is at least the k-th
\* reference to the key (puts and gets made while it was outside the main
\* cache) since it was last promoted or removed.
C16_AdmittedAtKthReference ==
    [][(/\ engine = "LRUK"
        /\ TrackedKey \notin cache.main.map
        /\ TrackedKey \in cache'.main.map)
       => /\ ref'.op \in {"put", "get", "get1"}
          /\ Min2(ref.cnt + 1, MaxRefs) >= cache.k]_vars

\* C16 happens: with k = 2, a get of the tracked key, outside the main cache
\* and referenced once before, has just brought it into the main cache.
C16_Witness ==
    /\ engine = "LRUK"
    /\ cache.k = 2
    /\ ref.op = "get" /\ ref.cnt = 0
    /\ ref.val # NoValue
    /\ TrackedKey \in cache.main.map
    /\ Cardinality(cache.main.map) = MaxCap

\* C17: on LruKCache, whenever a key is in the main cache after a call, be
\* it promoted by that call (a put or a get) or there before, the value the
\* main cache holds for it is the value of the most recent put of that key;
\* and a get(key, value&) that finds the key hands back that value.
C17_LatestPutValue ==
    [][(/\ engine = "LRUK"
        /\ TrackedKey \in cache'.main.map)
       => /\ cache'.main.val[TrackedKey] = ref'.val
          /\ ref'.val \in Values
          /\ ref'.op = "get" => out' = ref'.val]_vars

\* C17 happens: with k = 2, the get that has just returned found the
\* tracked key, alone in the main cache and gone from the history, and
\* handed back the value of its last put, which is not the default value.
C17_Witness ==
    /\ engine = "LRUK"
    /\ cache.k = 2
    /\ ref.op = "get"
    /\ TrackedKey \in cache.main.map
    /\ ref.val = DefaultValue + 1
    /\ out = ref.val
    /\ cache.history.map = {}
    /\ cache.main.map = {TrackedKey}

\* C18: on ARCCache, after every call that returned, the resident lists
\* hold at most capacity_ keys together and so do the ghost lists.
C18_ArcListsBounded ==
    engine = "ARC" /\ status = "ok"
    => /\ Len(cache.t1) + Len(cache.t2) <= cache.capacity
       /\ Len(cache.b1) + Len(cache.b2) <= cache.capacity

\* C18 happens: a put of a key the cache did not know has returned on an
\* ARCCache of capacity 1 whose one resident key went to the ghosts, and the
\* resident lists and the ghost lists each hold exactly capacity_ keys.
C18_Witness ==
    /\ engine = "ARC" /\ status = "ok"
    /\ cache.capacity = 1
    /\ last.op = "put" /\ ~last.hit
    /\ last.gone # {}
    /\ cache.t1 = <<last.key>>
    /\ Len(cache.t1) + Len(cache.t2) = cache.capacity
    /\ Len(cache.b1) + Len(cache.b2) = cache.capacity

\* C19: on ARCCache, after every call that returned, no key is in two of
\* T1, T2, B1, B2 and no key is twice in one of them.
C19_ArcListsDisjoint ==
    engine = "ARC" /\ status = "ok"
    => LET all == cache.t1 \o cache.t2 \o cache.b1 \o cache.b2
       IN  \A i, j \in 1..Len(all) : all[i] = all[j] => i = j

\* C19 happens: a put of a ghost key has returned on an ARCCache of the
\* largest capacity: the key is now the newest of T2 and in no ghost list,
\* the key evicted for it is in one, and T1 holds a key too.
C19_Witness ==
    /\ engine = "ARC" /\ status = "ok"
    /\ cache.capacity = MaxCap
    /\ last.op = "put" /\ ~last.hit
    /\ cache.t2 # <<>> /\ cache.t2[Len(cache.t2)] = last.key
    /\ cache.t1 # <<>>
    /\ \E g \in last.gone : InSeq(cache.b1, g) \/ InSeq(cache.b2, g)
    /\ ~InSeq(cache.b1, last.key) /\ ~InSeq(cache.b2, last.key)

\* C20: on ARCCache, after every call that returned, 0 <= p_ <= capacity_.
C20_ArcPInRange ==
    engine = "ARC" /\ status = "ok" => 0 <= cache.p /\ cache.p <= cache.capacity

\* C21: on ARCCache, put(k, v) of a key of B1 returns with p_ at
\* min(capacity_, p_ + max(|B2| / |B1|, 1)), the sizes taken before the
\* call, with exactly one resident key evicted, with k out of B1 and the
\* newest of T2, and with v stored for k.
C21_GhostHitB1 ==
    [][\A k \in Keys, v \in Values :
         (/\ engine = "ARC"
          /\ InSeq(cache.b1, k)
          /\ last'.op = "put" /\ last'.key = k
          /\ Put(k, v))
         => /\ status' = "ok"
            /\ cache'.p = Min2(cache.capacity,
                               cache.p + Max2(Len(cache.b2) \div Len(cache.b1), 1))
            /\ Cardinality(last'.gone) = 1
            /\ ~InSeq(cache'.b1, k)
            /\ cache'.t2 # <<>> /\ cache'.t2[Len(cache'.t2)] = k
            /\ cache'.store[k] = v]_vars

\* C22: on ARCCache, p_ changes only in a put of a ghost key and in
\* removeAll, which sets it to 0.  A put of a key of B1 that returns never
\* lowers p_ and raises it unless it is capacity_ already; a put of a key of
\* B2 that returns never raises p_ and lowers it unless it is 0 already; a
\* put of any other key, a get and a remove leave p_ as it was.
C22_PMovesOnGhostHitsOnly ==
    [][engine = "ARC" =>
         /\ \A k \in WideKeys :
              /\ (WPut(k) /\ InSeq(cache.b1, k) /\ status' = "ok")
                 => /\ cache'.p >= cache.p
                    /\ cache.p < cache.capacity => cache'.p > cache.p
              /\ (WPut(k) /\ InSeq(cache.b2, k) /\ status' = "ok")
                 => /\ cache'.p <= cache.p
                    /\ cache.p > 0 => cache'.p < cache.p
              /\ (WPut(k) /\ ~InSeq(cache.b1, k) /\ ~InSeq(cache.b2, k))
                 => cache'.p = cache.p
              /\ WGet(k) => cache'.p = cache.p
              /\ WRemove(k) => cache'.p = cache.p
         /\ WRemoveAll => cache'.p = 0]_vars

\* C27: on LruCache, after every call that returned, the keys of
\* m_node_map are the keys of the nodes between m_head and m_tail, each met
\* once on the way from head to tail; the node the map holds for a key is
\* linked in on both sides; and next and prev agree: the prev of a node's
\* next is the node, and the next of a node's prev is the node.
C27_MapAndListAgree ==
    engine = "LRU" /\ status = "ok"
    => LET list == LruList(cache)
       IN  /\ Elems(list) = cache.map
           /\ Len(list) = Cardinality(cache.map)
           /\ \A k \in cache.map : cache.nxt[k] # NULL /\ cache.prv[k] # NULL
           /\ \A n \in cache.map \cup {HEAD} :
                /\ cache.nxt[n] \in cache.map \cup {TAIL}
                /\ cache.prv[cache.nxt[n]] = n
           /\ \A n \in cache.map \cup {TAIL} :
                /\ cache.prv[n] \in cache.map \cup {HEAD}
                /\ cache.nxt[cache.prv[n]] = n

\* C27 happens: a get has just found a key of a full LruCache of the
\* largest capacity: its node is the one before tail, another key's node is
\* the one after head, and the list is in the order of last access.
C27_Witness ==
    /\ engine = "LRU" /\ status = "ok"
    /\ cache.cap = MaxCap
    /\ Cardinality(cache.map) = MaxCap
    /\ last.op = "get" /\ last.hit
    /\ cache.prv[TAIL] = last.key
    /\ cache.nxt[HEAD] # last.key
    /\ LruList(cache) = rec

\* C28: in LfuCache, after every completed call every resident entry is in
\* exactly one frequency bucket, the one of its own frequency, and minFreq_
\* is 0 when the cache is empty and the smallest frequency with a non-empty
\* bucket otherwise; this holds of both headers that define LfuCache.
C28_LfuBucketsAndMinFreq ==
    engine \in {"LFU", "LFUPLAIN"} /\ status = "ok"
    => LET live == {f \in Freqs : cache.fl[f] # <<>>}
       IN  /\ \A k \in cache.nodes :
                 /\ Cardinality({f \in Freqs : InSeq(cache.fl[f], k)}) = 1
                 /\ InSeq(cache.fl[cache.freq[k]], k)
                 /\ Cardinality({i \in 1..Len(cache.fl[cache.freq[k]]) : cache.fl[cache.freq[k]][i] = k}) = 1
           /\ \A f \in Freqs : Elems(cache.fl[f]) \subseteq cache.nodes
           /\ cache.nodes = {} => cache.minFreq = 0
           /\ cache.nodes # {} => cache.minFreq \in live /\ \A f \in live : cache.minFreq <= f

\* C29: on LfuAgingCache, a call that ran the aging pass ends with minFreq_
\* at the smallest frequency of the resident entries, and a put of a new key
\* into a full cache (of capacity 1 or more) returns having evicted exactly
\* one resident entry.
C29_MinFreqAfterAging ==
    [][engine = "AGING" =>
         /\ (/\ last'.op \in {"put", "get", "get1"}
             /\ status' = "ok"
             /\ last'.hit \/ (last'.op = "put" /\ cache.cap >= 1)
             /\ cache.total + 1 > cache.limit * Cardinality(cache'.nodes))
            => /\ cache'.nodes # {}
               /\ \A j \in cache'.nodes : cache'.minFreq <= cache'.freq[j]
               /\ \E j \in cache'.nodes : cache'.minFreq = cache'.freq[j]
         /\ \A k \in Keys, v \in Values :
              (/\ k \notin cache.nodes
               /\ cache.cap >= 1
               /\ Cardinality(cache.nodes) >= cache.cap
               /\ last'.op = "put" /\ last'.key = k
               /\ Put(k, v))
              => /\ status' = "ok"
                 /\ Cardinality(last'.gone) = 1
                 /\ last'.gone \subseteq cache.nodes]_vars

\* C30: on LruKCache, after every completed call every key with a value in
\* historyStore_ is a key of the history cache, so historyStore_ holds no
\* more keys than the history cache's capacity.
C30_StagedKeysInHistory ==
    engine = "LRUK" /\ status = "ok"
    => LET staged == {k \in Keys : cache.store[k] # NoValue}
       IN  /\ staged \subseteq cache.history.map
           /\ Cardinality(staged) <= cache.history.cap

\* C25: HashLfuAgingCache(T, N, limit) gives each of its shards 0..N-2 the
\* capacity T div N and shard N-1 the capacity T div N + T mod N; the
\* capacities of the shards add up to T.
RECURSIVE SumCaps(_, _)
SumCaps(shards, n) == IF n = 0 THEN 0 ELSE shards[n].cap + SumCaps(shards, n - 1)

C25_CapacitySplit ==
    engine = "HASHAGING"
    => LET T == arg.total
           N == arg.n
       IN  /\ Len(cache.shards) = N
           /\ \A i \in 0..(N - 2) : cache.shards[i + 1].cap = T \div N
           /\ cache.shards[N].cap = (T \div N) + (T % N)
           /\ SumCaps(cache.shards, N) = T

\* C25 happens: a total that the shard count does not divide, so the last
\* shard is the larger one, and both shards are filled to their capacities.
C25_Witness ==
    /\ engine = "HASHAGING"
    /\ status = "ok"
    /\ arg.n = MaxShards
    /\ arg.total % arg.n # 0
    /\ arg.total \div arg.n >= 1
    /\ \A i \in 1..arg.n : Cardinality(cache.shards[i].nodes) = cache.shards[i].cap

\* The keys a shard holds anywhere: an LfuAgingCache in its map, an
\* LruKCache in its main cache, its history cache or historyStore_.
ShardKeys(e, sh) ==
    IF e = "HASHAGING" THEN sh.nodes
    ELSE sh.main.map \cup sh.history.map \cup {k \in Keys : sh.store[k] # NoValue}

\* C23: in a sharded wrapper a call on key k changes no shard but the one at
\* index hash(k) mod N; the keys that stop being resident in the call were
\* held by that shard; and after the call every key a shard holds is a key
\* that is routed to that shard, so no key is held by two shards.
C23_OnlyOwnShard ==
    [][(/\ engine \in Wrappers
        /\ last'.op \in {"put", "get", "get1", "remove"})
       => LET own == getShard(cache, last'.key)
              N == Len(cache.shards)
          IN  /\ Len(cache'.shards) = N
              /\ \A j \in 1..N : j # own => cache'.shards[j] = cache.shards[j]
              /\ last'.gone \subseteq ShardKeys(engine, cache.shards[own])
              /\ \A j \in 1..N : \A k \in ShardKeys(engine, cache'.shards[j]) :
                   j = getShard(cache', k)]_vars

\* C23 happens: a put of a new key into a full shard of HashLfuAgingCache
\* has evicted a key, while another shard holds a key.
C23_Witness ==
    /\ engine = "HASHAGING"
    /\ status = "ok"
    /\ last.op = "put" /\ ~last.hit
    /\ last.gone # {}
    /\ \E j \in 1..Len(cache.shards) :
         /\ j # getShard(cache, last.key)
         /\ cache.shards[j].nodes # {}
    /\ last.key \in cache.shards[getShard(cache, last.key)].nodes

\* One call of put, get(key, value&) or remove on a wrapper w, and what the
\* caller sees of it: ok (the call returned), hit and value (a get's result).
WrapperOps == {"put", "get", "remove"}

Apply(op, w, k, v, order) ==
    CASE op = "put" ->
           LET r == EnginePut(engine, w, k, v, order)
           IN  [s |-> r.s, ok |-> r.ok, hit |-> FALSE, value |-> DefaultValue]
      [] op = "get" ->
           LET r == EngineGet(engine, w, k, order)
           IN  [s |-> r.s, ok |-> TRUE, hit |-> r.hit, value |-> r.value]
      [] op = "remove" ->
           [s |-> EngineRemove(engine, w, k), ok |-> TRUE, hit |-> FALSE, value |-> DefaultValue]

\* What a caller has in hand after a call: nothing when the call before it
\* never returned ("not run"), nothing when this call never returned
\* ("never"), else what it returned.
Returned(a) == [state |-> "returned", hit |-> a.hit, value |-> a.value]
NeverReturned == [state |-> "never", hit |-> FALSE, value |-> DefaultValue]
NotRun == [state |-> "not run", hit |-> FALSE, value |-> DefaultValue]

\* first(kf) then second(ks) from w: the wrapper's state at the end and the
\* two results.
InSequence(w, first, kf, vf, orderf, second, ks, vs, orders) ==
    LET a == Apply(first, w, kf, vf, orderf)
    IN  IF ~a.ok THEN [s |-> a.s, rf |-> NeverReturned, rs |-> NotRun]
        ELSE LET b == Apply(second, a.s, ks, vs, orders)
             IN  IF ~b.ok THEN [s |-> b.s, rf |-> Returned(a), rs |-> NeverReturned]
                 ELSE [s |-> b.s, rf |-> Returned(a), rs |-> Returned(b)]

\* C24: in a sharded wrapper, for keys k1 and k2 routed to different shards
\* and operations op1, op2 among put, get and remove, op1(k1) then op2(k2)
\* ends in the same wrapper state with the same results of the two calls as
\* op2(k2) then op1(k1).
C24_DifferentShardsCommute ==
    (engine \in Wrappers /\ status = "ok")
    => \A k1, k2 \in Keys :
         (k1 < k2 /\ getShard(cache, k1) # getShard(cache, k2))
         => \A op1, op2 \in WrapperOps, v1, v2 \in Values :
              LET forth == {InSequence(cache, op1, k1, v1, o1, op2, k2, v2, o2) :
                              o1 \in ShardOrders(cache, k1), o2 \in ShardOrders(cache, k2)}
                  back == {InSequence(cache, op2, k2, v2, o2, op1, k1, v1, o1) :
                              o1 \in ShardOrders(cache, k1), o2 \in ShardOrders(cache, k2)}
              IN  forth = {[s |-> x.s, rf |-> x.rs, rs |-> x.rf] : x \in back}

\* C26: in a sharded wrapper no thread holds two shard mutexes at once;
\* mutexes are taken in the order shard, engine, inner LRU (a thread holding
\* an engine mutex holds that shard's mutex, a thread holding an inner LRU
\* mutex holds that shard's engine mutex); and, under fair scheduling, every
\* call a thread has started returns.
C26_OneShardMutexAndProgress ==
    /\ [](\A t \in Threads :
            /\ Cardinality({i \in 1..Len(cache.shards) : mu[<<"shard", i>>] = t}) <= 1
            /\ \A i \in 1..Len(cache.shards) :
                 /\ mu[<<"engine", i>>] = t => mu[<<"shard", i>>] = t
                 /\ (mu[<<"main", i>>] = t \/ mu[<<"history", i>>] = t)
                      => mu[<<"engine", i>>] = t)
    /\ \A t \in Threads : (thr[t].pc # "idle") ~> (thr[t].pc = "idle")

\* C31: on LruKCache, get(k, out) for a key that is neither in the main
\* cache nor in historyStore_ returns false, leaves out as it was, leaves k
\* in the history cache with a count one above its count before (1 if it
\* had none), and changes neither the main cache nor historyStore_.
C31_GetMissCountsOnly ==
    [][\A k \in Keys, given \in Values :
         (/\ engine = "LRUK"
          /\ k \notin cache.main.map
          /\ cache.store[k] = NoValue
          /\ last'.op = "get" /\ last'.key = k
          /\ Get(k, given))
         => /\ ~last'.hit
            /\ out' = given
            /\ k \in cache'.history.map
            /\ cache'.history.val[k]
                 = (IF k \in cache.history.map THEN cache.history.val[k] ELSE 0) + 1
            /\ cache'.main = cache.main
            /\ cache'.store = cache.store]_vars

\* C31 happens: a get of a key that had a history count and no value, called
\* with a variable holding a value other than Value{}, has missed and raised
\* the count to MaxCount, beside a key in the main cache and a staged key.
C31_Witness ==
    /\ engine = "LRUK"
    /\ status = "ok"
    /\ last.op = "get" /\ ~last.hit
    /\ last.given # DefaultValue /\ out = last.given
    /\ cache.store[last.key] = NoValue
    /\ last.key \in cache.history.map
    /\ cache.history.val[last.key] = MaxCount
    /\ cache.main.map # {}
    /\ \E j \in Keys : cache.store[j] # NoValue

\* C32: on LruKCache, after remove(k) the key is in none of the main cache,
\* the history cache and historyStore_; a get of k would miss; a put of k
\* would enter the main cache only where k_ is 1 (a first reference
\* suffices), the count starting anew; and the entries of the other keys are
\* as before: their membership, values, counts, staged values and order.
C32_RemoveForgetsKey ==
    [][\A k \in Keys :
         (/\ engine = "LRUK"
          /\ last'.op = "remove" /\ last'.key = k
          /\ Remove(k))
         => /\ k \notin cache'.main.map
            /\ k \notin cache'.history.map
            /\ cache'.store[k] = NoValue
            /\ ~LruKGet(cache', k).hit
            /\ \A v \in Values :
                 k \in LruKPut(cache', k, v).main.map
                   <=> (cache.k <= 1 /\ cache.main.cap >= 1)
            /\ LruList(cache'.main) = Without(LruList(cache.main), k)
            /\ LruList(cache'.history) = Without(LruList(cache.history), k)
            /\ \A j \in Keys \ {k} :
                 /\ cache'.main.val[j] = cache.main.val[j]
                 /\ cache'.history.val[j] = cache.history.val[j]
                 /\ cache'.store[j] = cache.store[j]]_vars

\* C32 happens: a key of the main cache was removed while another key stays
\* in the main cache and a third is staged with a count in the history.
C32_Witness ==
    /\ engine = "LRUK"
    /\ status = "ok"
    /\ last.op = "remove" /\ last.hit
    /\ last.key \notin cache.main.map
    /\ cache.main.map # {}
    /\ \E j \in cache.history.map : cache.store[j] # NoValue

\* C33: on LruKCache, after every completed call no key of the main cache is
\* in the history cache or has a value in historyStore_.
C33_MainApartFromHistory ==
    engine = "LRUK" /\ status = "ok"
    => \A k \in cache.main.map :
         /\ k \notin cache.history.map
         /\ cache.store[k] = NoValue

\* C33 happens: with k_ at 2, a put of a key that was not in the main cache
\* promoted it (it had a count), so it is in the main cache now, beside
\* another key that is staged.
C33_Witness ==
    /\ engine = "LRUK"
    /\ status = "ok"
    /\ cache.k = 2
    /\ last.op = "put" /\ ~last.hit
    /\ last.key \in cache.main.map
    /\ \E j \in cache.history.map : cache.store[j] # NoValue

\* C34: an LruKCache with k_ = 1 and a plain LruCache of its main capacity,
\* given the same sequence of put, get, remove and removeAll, return the same
\* from every get (hit or miss, and the value) and hold the same resident
\* keys in the same recency order with the same values.
C34_LruK1IsLru ==
    (engine = "LRUK" /\ arg.k = 1 /\ status = "ok")
    => /\ LruList(cache.main) = LruList(ref.lru)
       /\ cache.main.map = ref.lru.map
       /\ \A k \in cache.main.map : cache.main.val[k] = ref.lru.val[k]
       /\ last.op \in {"get", "get1"}
            => /\ last.hit = ref.hit
               /\ last.ret = ref.value

\* C34 happens: both caches are full at the largest capacity and a get has
\* just missed a key that a history count is kept for, with a variable
\* holding a value other than Value{}.
C34_Witness ==
    /\ engine = "LRUK" /\ arg.k = 1 /\ status = "ok"
    /\ cache.main.cap = MaxCap
    /\ Cardinality(ref.lru.map) = MaxCap
    /\ last.op = "get" /\ ~last.hit /\ last.given # DefaultValue
    /\ last.key \in cache.history.map

\* put(k, v) reaches the replace step (evictSlot) on the cache as it is:
\* k is not resident, and it is a ghost key or the resident lists are full.
ReplaceRuns(k) ==
    /\ ~InSeq(cache.t1, k) /\ ~InSeq(cache.t2, k)
    /\ \/ InSeq(cache.b1, k)
       \/ InSeq(cache.b2, k)
       \/ Len(cache.t1) + Len(cache.t2) >= cache.capacity

\* The cache as evictSlot(k) finds it in put(k, v): handleGhostHit has
\* called adjustP, handleCacheMiss has changed nothing.
AtReplace(k) ==
    IF InSeq(cache.b1, k) THEN adjustP(cache, TRUE)
    ELSE IF InSeq(cache.b2, k) THEN adjustP(cache, FALSE)
    ELSE cache

\* C35: on ARCCache with capacity_ >= 1, whenever a put reaches the replace
\* step for an incoming key, the step completes and evicts the oldest key
\* of T1 to the newest end of B1 exactly when |T1| >= 1 and (|T1| > p or
\* (the incoming key is in B2 and |T1| = p)), and otherwise the oldest key
\* of T2 to the newest end of B2; that key is resident no more, and it is
\* the one key evicted.
C35_ReplaceRule ==
    (engine = "ARC" /\ status = "ok" /\ cache.capacity >= 1)
    => \A k \in Keys :
         ReplaceRuns(k)
         => LET s == AtReplace(k)
                e == evictSlot(s, k)
                fromT1 == /\ Len(s.t1) >= 1
                          /\ \/ Len(s.t1) > s.p
                             \/ InSeq(s.b2, k) /\ Len(s.t1) = s.p
            IN  /\ e.ok
                /\ IF fromT1
                   THEN /\ e.s.t1 = Tail(s.t1)
                        /\ e.s.b1 = Append(s.b1, Head(s.t1))
                        /\ e.s.t2 = s.t2 /\ e.s.b2 = s.b2
                   ELSE /\ s.t2 # <<>>
                        /\ e.s.t2 = Tail(s.t2)
                        /\ e.s.b2 = Append(s.b2, Head(s.t2))
                        /\ e.s.t1 = s.t1 /\ e.s.b1 = s.b1
                /\ Cardinality(Elems(s.t1) \cup Elems(s.t2))
                     = Cardinality(Elems(e.s.t1) \cup Elems(e.s.t2)) + 1

\* C36: on ARCCache, a put of a key of B2 that returns has set p_ to
\* max(0, p_ - max(|B1| / |B2|, 1)), the sizes and p_ taken before the
\* call (0 where the step is more than p_), has run the replace step, and
\* leaves the key out of B2 and the newest of T2 with the value put.
C36_GhostHitB2 ==
    [][\A k \in WideKeys :
         (/\ engine = "ARC"
          /\ InSeq(cache.b2, k)
          /\ WPut(k)
          /\ status' = "ok")
         => /\ cache'.p = Max2(0, cache.p - Max2(Len(cache.b1) \div Len(cache.b2), 1))
            /\ Cardinality(Resident(engine, cache) \ Resident(engine, cache')) = 1
            /\ ~InSeq(cache'.b2, k)
            /\ cache'.t2 # <<>> /\ cache'.t2[Len(cache'.t2)] = k
            /\ cache'.store[k] = DefaultValue]_vars

C38_GetHitMovesOnly ==
    [][\A k \in Keys, given \in Values :
         (/\ engine = "ARC"
          /\ InSeq(cache.t1, k) \/ InSeq(cache.t2, k)
          /\ last'.op = "get" /\ last'.key = k
          /\ Get(k, given))
         => /\ status' = "ok"
            /\ last'.hit
            /\ out' = cache.store[k]
            /\ cache'.t1 = Without(cache.t1, k)
            /\ cache'.t2 = Append(Without(cache.t2, k), k)
            /\ Resident(engine, cache') = Resident(engine, cache)
            /\ cache'.store = cache.store
            /\ cache'.b1 = cache.b1
            /\ cache'.b2 = cache.b2
            /\ cache'.p = cache.p]_vars

\* C38 happens: a get has found a key that is now the newest of T2, behind
\* an older key of T2, in a cache that has a key in a ghost list and p_ > 0,
\* and the caller's variable, which held another value, holds the key's.
C38_Witness ==
    /\ engine = "ARC" /\ status = "ok"
    /\ last.op = "get" /\ last.hit
    /\ Len(cache.t2) >= 2 /\ cache.t2[Len(cache.t2)] = last.key
    /\ cache.b1 \o cache.b2 # <<>>
    /\ cache.p > 0
    /\ last.given # out
    /\ out = cache.store[last.key]

\* C39: on ARCCache, after every call that returned, store_map_ holds a
\* value for a key exactly when the key is in T1 or T2 (a key evicted to a
\* ghost list or trimmed from one has no value left), and it holds at most
\* capacity_ values.
C39_StoreHoldsResidentsOnly ==
    (engine = "ARC" /\ status = "ok")
    => /\ \A k \in ArcKeys :
            cache.store[k] # NoValue <=> (InSeq(cache.t1, k) \/ InSeq(cache.t2, k))
       /\ Cardinality({k \in ArcKeys : cache.store[k] # NoValue}) <= cache.capacity

\* C40: on HashLfuAgingCache built with a total capacity >= 1 and at least
\* one shard, a get(k, out) that directly follows a put(k, v) returns true
\* with out = v, whichever shard k hashes to.
C40_PutThenGetOnAnyShard ==
    [][\A k \in Keys, given \in Values :
         (/\ engine = "HASHAGING"
          /\ arg.total >= 1 /\ arg.n >= 1
          /\ status = "ok"
          /\ last.op = "put" /\ last.key = k
          /\ last'.op = "get"
          /\ Get(k, given))
         => /\ last'.hit
            /\ out' = last.ret]_vars

====
